---- MODULE Spec2Model ----
(***************************************************************************)
(* ZOI Sentinel v5.0 (src/zoi_complete_system.py): the research            *)
(* orchestration and compliance cache engine.                              *)
(*                                                                         *)
(* Conventions of the translation                                          *)
(*  - A Python str that the code inspects (lower, upper, replace, strip,   *)
(*    `in`) is a sequence of one-character strings.  A text the code only  *)
(*    stores and compares as a whole is a one-symbol sequence.             *)
(*  - A Python dict is a function; a missing key is a key outside DOMAIN.  *)
(*  - A value whose Python type the code depends on is tagged:             *)
(*    [t |-> "str", v |-> s], [t |-> "num", v |-> n], [t |-> "null"],      *)
(*    [t |-> "dict", v |-> f], [t |-> "bool", v |-> b],                    *)
(*    [t |-> "list", v |-> q], [t |-> "iso", v |-> n] (an ISO timestamp).  *)
(*  - A call that can raise returns [ok |-> TRUE, val |-> v] or            *)
(*    [ok |-> FALSE, exc |-> name].                                        *)
(***************************************************************************)
EXTENDS Integers, Sequences, FiniteSets, TLC

VARIABLES
    ANTHROPIC_API_KEY,      \* the backend credential ("" when not configured)
    PRODUCT_CACHE,          \* slug -> cached record
    CLAUDE_RESEARCH_TASKS,  \* slug -> [status, started_at]
    REFERENCE_DATA,         \* slug -> reference record (a module-level dict)
    now,                    \* datetime.now(), in seconds since process start
    runs,                   \* research runs suspended at a provider call
    scheduled,              \* BackgroundTasks added and not yet started
    calls,                  \* provider calls (client.messages.create) so far
    result,                 \* what the last finished get_product_data returned
    vin,                    \* validator harness: the input record
    vout                    \* validator harness: the outcome of the call

vars == <<ANTHROPIC_API_KEY, PRODUCT_CACHE, CLAUDE_RESEARCH_TASKS, REFERENCE_DATA,
          now, runs, scheduled, calls, result, vin, vout>>

-----------------------------------------------------------------------------
(* Python values                                                           *)

Str(s) == [t |-> "str", v |-> s]
Num(n) == [t |-> "num", v |-> n]
Bool(b) == [t |-> "bool", v |-> b]
Dict(f) == [t |-> "dict", v |-> f]
List(q) == [t |-> "list", v |-> q]
Iso(n) == [t |-> "iso", v |-> n]
Null == [t |-> "null"]

Ok(x) == [ok |-> TRUE, val |-> x]
Raise(e) == [ok |-> FALSE, exc |-> e]

EmptyDict == [k \in {} |-> Null]

\* d.get(k, default), d[k] = x, {**a, **b}, del d[k]
Get(d, k, default) == IF k \in DOMAIN d THEN d[k] ELSE default
Put(d, k, x) == (k :> x) @@ d
Merge(a, b) == b @@ a
Del(d, k) == [f \in DOMAIN d \ {k} |-> d[f]] @@ EmptyDict

-----------------------------------------------------------------------------
(* Python str operations on sequences of characters                        *)

UpperChars == <<"A", "B", "C", "D", "E", "F", "G", "H", "I", "J", "K", "L", "M",
                "N", "O", "P", "Q", "R", "S", "T", "U", "V", "W", "X", "Y", "Z",
                "Á", "Ã", "Ç", "É", "Í">>
LowerChars == <<"a", "b", "c", "d", "e", "f", "g", "h", "i", "j", "k", "l", "m",
                "n", "o", "p", "q", "r", "s", "t", "u", "v", "w", "x", "y", "z",
                "á", "ã", "ç", "é", "í">>

\* the case mappings as tables
ToLower ==
    [c \in {UpperChars[i] : i \in DOMAIN UpperChars} |->
        LowerChars[CHOOSE i \in DOMAIN UpperChars : UpperChars[i] = c]] @@ << >>
ToUpper ==
    [c \in {LowerChars[i] : i \in DOMAIN LowerChars} |->
        UpperChars[CHOOSE i \in DOMAIN LowerChars : LowerChars[i] = c]] @@ << >>

LowerChar(c) == IF c \in DOMAIN ToLower THEN ToLower[c] ELSE c
UpperChar(c) == IF c \in DOMAIN ToUpper THEN ToUpper[c] ELSE c
IsAlpha(c) == c \in DOMAIN ToLower \/ c \in DOMAIN ToUpper

\* s.lower(), s.upper()
Lower(s) == [i \in 1..Len(s) |-> LowerChar(s[i])] \o << >>
Upper(s) == [i \in 1..Len(s) |-> UpperChar(s[i])] \o << >>

\* s.title(): the first letter of every run of letters in upper case, the rest lower
Title(s) ==
    [i \in 1..Len(s) |->
        IF i = 1 \/ ~IsAlpha(s[i - 1]) THEN UpperChar(s[i]) ELSE LowerChar(s[i])] \o << >>

\* s.replace(c, "") and s.replace(c, d) for one-character c and d
Remove(s, c) == SelectSeq(s, LAMBDA x : x # c)
Replace(s, c, d) == [i \in 1..Len(s) |-> IF s[i] = c THEN d ELSE s[i]] \o << >>

\* s.strip(): leading and trailing white space removed
IsSpace(c) == c \in {" ", "\t", "\n"}
Strip(s) ==
    IF \A i \in 1..Len(s) : IsSpace(s[i])
    THEN << >>
    ELSE LET first == CHOOSE i \in 1..Len(s) :
                         ~IsSpace(s[i]) /\ \A j \in 1..(i - 1) : IsSpace(s[j])
             last == CHOOSE i \in 1..Len(s) :
                         ~IsSpace(s[i]) /\ \A j \in (i + 1)..Len(s) : IsSpace(s[j])
         IN SubSeq(s, first, last)

\* a in b (substring); the empty string is in every string
Contains(a, b) ==
    \/ Len(a) = 0
    \/ \E i \in 0..(Len(b) - Len(a)) : b[i + 1] = a[1] /\ SubSeq(b, i + 1, i + Len(a)) = a

-----------------------------------------------------------------------------
(* String constants of the program                                         *)

BANIDO == <<"B", "A", "N", "I", "D", "O">>
CONFORME == <<"C", "O", "N", "F", "O", "R", "M", "E">>
APPROVED == <<"A", "P", "P", "R", "O", "V", "E", "D">>
ZOI_APPROVED == <<"Z", "O", "I", " ", "A", "P", "P", "R", "O", "V", "E", "D">>
REQUIRES_ATTENTION == <<"R", "E", "Q", "U", "I", "R", "E", "S", " ",
                        "A", "T", "T", "E", "N", "T", "I", "O", "N">>
RESEARCHING == <<"R", "E", "S", "E", "A", "R", "C", "H", "I", "N", "G">>
BLOCKED == <<"B", "L", "O", "C", "K", "E", "D">>

carbendazim == <<"c", "a", "r", "b", "e", "n", "d", "a", "z", "i", "m">>
imidacloprid == <<"i", "m", "i", "d", "a", "c", "l", "o", "p", "r", "i", "d">>
thiamethoxam == <<"t", "h", "i", "a", "m", "e", "t", "h", "o", "x", "a", "m">>
clothianidin == <<"c", "l", "o", "t", "h", "i", "a", "n", "i", "d", "i", "n">>
thiacloprid == <<"t", "h", "i", "a", "c", "l", "o", "p", "r", "i", "d">>
glyphosate == <<"g", "l", "y", "p", "h", "o", "s", "a", "t", "e">>
cypermethrin == <<"c", "y", "p", "e", "r", "m", "e", "t", "h", "r", "i", "n">>
enrofloxacin == <<"e", "n", "r", "o", "f", "l", "o", "x", "a", "c", "i", "n">>
chloramphenicol == <<"c", "h", "l", "o", "r", "a", "m", "p", "h", "e", "n", "i", "c", "o", "l">>
nitrofurans == <<"n", "i", "t", "r", "o", "f", "u", "r", "a", "n", "s">>

\* substance names as a provider may spell them
Carbendazim == <<"C", "a", "r", "b", "e", "n", "d", "a", "z", "i", "m">>
Thia_Cloprid == <<"T", "h", "i", "a", "-", "C", "l", "o", "p", "r", "i", "d">>

\* a substance entry {"limit", "status", "regulation", "note"}
Entry(limit, status, regulation, note) ==
    [limit |-> Str(<<limit>>), status |-> Str(status),
     regulation |-> Str(<<regulation>>), note |-> Str(<<note>>)]

-----------------------------------------------------------------------------
(* REGULATORY TRUTH LAYER                                                  *)

\* the keys of EU_BANNED_SUBSTANCES in the dict's (insertion) order
EU_BANNED_KEYS == <<carbendazim, imidacloprid, thiamethoxam, clothianidin, thiacloprid>>

EU_BANNED_SUBSTANCES ==
    (carbendazim :> Entry("0.01 mg/kg", BANIDO, "Reg. (CE) 396/2005",
                          "Banido na UE - mutagenico e toxico para reproducao."))
    @@ (imidacloprid :> Entry("0.01 mg/kg", BANIDO, "Reg. Impl. (UE) 2018/783",
                              "Banido na UE desde 2018 - neonicotinoide."))
    @@ (thiamethoxam :> Entry("0.01 mg/kg", BANIDO, "Reg. Impl. (UE) 2018/785",
                              "Banido na UE desde 2018 - neonicotinoide."))
    @@ (clothianidin :> Entry("0.01 mg/kg", BANIDO, "Reg. Impl. (UE) 2018/784",
                              "Banido na UE desde 2018 - neonicotinoide."))
    @@ (thiacloprid :> Entry("0.01 mg/kg", BANIDO, "Reg. (UE) 2020/23",
                             "Aprovacao nao renovada - banido desde Fev/2020."))

\* line 160: substance_key.lower().replace("-", "").replace("_", "").replace(" ", "")
NormalizeSubstance(substance_key) ==
    Remove(Remove(Remove(Lower(substance_key), "-"), "_"), " ")

\* line 162: the test of one authority key against a normalized substance name
BannedKeyMatches(banned_key, normalized) ==
    LET stripped == Remove(banned_key, "-")
    IN Contains(stripped, normalized) \/ Contains(normalized, stripped)

\* lines 161-176: the first authority key (in table order) that matches, 0 if none
FirstBannedMatch(substance_key) ==
    LET normalized == NormalizeSubstance(substance_key)
        hits == {i \in DOMAIN EU_BANNED_KEYS : BannedKeyMatches(EU_BANNED_KEYS[i], normalized)}
    IN IF hits = {} THEN 0 ELSE CHOOSE i \in hits : \A j \in hits : i <= j

\* FirstBannedMatch of the substance names the model's records use, computed once
SubstanceNames ==
    {carbendazim, imidacloprid, thiamethoxam, clothianidin, thiacloprid, glyphosate,
     cypermethrin, enrofloxacin, chloramphenicol, nitrofurans, Carbendazim, Thia_Cloprid}
FirstBannedMatchTable == [k \in SubstanceNames |-> FirstBannedMatch(k)] @@ << >>
MatchOf(substance_key) ==
    IF substance_key \in DOMAIN FirstBannedMatchTable
    THEN FirstBannedMatchTable[substance_key]
    ELSE FirstBannedMatch(substance_key)

\* Overwrite with the merge the other way round, {**banned_truth, **substance_data}:
\* the fields of the entry win over the authority's
OverwriteKeepingEntry(i, substance_data) ==
    IF substance_data.t = "dict"
    THEN [hit |-> TRUE,
          corrected |-> Get(substance_data.v, "status", Str(<< >>)) # Str(BANIDO),
          entry |-> Dict(Merge(EU_BANNED_SUBSTANCES[EU_BANNED_KEYS[i]], substance_data.v))]
    ELSE [hit |-> TRUE, corrected |-> TRUE,
          entry |-> Dict(EU_BANNED_SUBSTANCES[EU_BANNED_KEYS[i]])]

\* Overwrite with `corrected = True` after the test of line 165 and not inside it
OverwriteAlwaysCorrected(i, substance_data) ==
    IF substance_data.t = "dict"
    THEN [hit |-> TRUE, corrected |-> TRUE,
          entry |-> Dict(Merge(substance_data.v, EU_BANNED_SUBSTANCES[EU_BANNED_KEYS[i]]))]
    ELSE [hit |-> TRUE, corrected |-> TRUE,
          entry |-> Dict(EU_BANNED_SUBSTANCES[EU_BANNED_KEYS[i]])]

\* lines 163-175: the entry stored for a substance that authority key i matched,
\* and whether `corrected` is set
Overwrite(i, substance_data) ==
    IF substance_data.t = "dict"
    THEN [hit |-> TRUE,
          corrected |-> Get(substance_data.v, "status", Str(<< >>)) # Str(BANIDO),
          entry |-> Dict(Merge(substance_data.v, EU_BANNED_SUBSTANCES[EU_BANNED_KEYS[i]]))]
    ELSE [hit |-> TRUE, corrected |-> TRUE,
          entry |-> Dict(EU_BANNED_SUBSTANCES[EU_BANNED_KEYS[i]])]

\* lines 159-176: one turn of the loop over mrl.items(): whether an authority key
\* matched, whether `corrected` is set, and the entry the dict holds afterwards
ScanEntry(substance_key, substance_data) ==
    IF MatchOf(substance_key) = 0
    THEN [hit |-> FALSE, corrected |-> FALSE, entry |-> substance_data]
    ELSE Overwrite(MatchOf(substance_key), substance_data)

\* lines 159-176: the whole loop: the dict it leaves, has_banned and corrected
ScanLimits(mrl0) ==
    LET scan == [k \in DOMAIN mrl0 |-> ScanEntry(k, mrl0[k])] @@ EmptyDict
    IN [mrl |-> [k \in DOMAIN mrl0 |-> scan[k].entry] @@ EmptyDict,
        has_banned |-> \E k \in DOMAIN mrl0 : scan[k].hit,
        corrected |-> \E k \in DOMAIN mrl0 : scan[k].corrected]

\* line 181: isinstance(v, dict) and v.get("status") == "BANIDO"
IsBanidoEntry(e) == e.t = "dict" /\ Get(e.v, "status", Null) = Str(BANIDO)

\* the object data["max_residue_limits"] after the call, whether it returned or raised
\* (the loop rewrites the dict in place)
LimitsAfter(data) ==
    LET mrlv == Get(data, "max_residue_limits", Dict(EmptyDict))
    IN IF mrlv.t # "dict" THEN mrlv ELSE Dict(ScanLimits(mrlv.v).mrl)

\* Line 182 computes in binary floating point (IEEE 754 double: 53 significant bits,
\* round to nearest, ties to even).  A float is [limbs, scale]: the integer whose
\* digits in base 2^13 are `limbs`, most significant first, divided by 2^scale.  Five
\* limbs of which the first is 1 are 53 bits.

\* n doubled until it is at least t, and how often it was doubled
RECURSIVE Scaled(_, _)
Scaled(n, t) == IF n >= t THEN n ELSE Scaled(2 * n, t)
RECURSIVE Doublings(_, _)
Doublings(n, t) == IF n >= t THEN 0 ELSE 1 + Doublings(2 * n, t)

\* 2^d, and the number of binary digits of v
RECURSIVE Pow2(_)
Pow2(d) == IF d = 0 THEN 1 ELSE 2 * Pow2(d - 1)
RECURSIVE BitLen(_)
BitLen(v) == IF v = 0 THEN 0 ELSE 1 + BitLen(v \div 2)

\* the first k digits in base 2^13 of r / t after the point (r < t), and what is
\* left of r
RECURSIVE QuotientLimbs(_, _, _)
QuotientLimbs(r, t, k) ==
    IF k = 0 THEN << >>
    ELSE <<(r * 8192) \div t>> \o QuotientLimbs((r * 8192) % t, t, k - 1)
RECURSIVE QuotientRest(_, _, _)
QuotientRest(r, t, k) ==
    IF k = 0 THEN r ELSE QuotientRest((r * 8192) % t, t, k - 1)

\* limbs + c and limbs * f + c for small c and f (the first limb takes the carry)
RECURSIVE AddSmall(_, _)
AddSmall(limbs, c) ==
    IF Len(limbs) = 1 THEN <<limbs[1] + c>>
    ELSE AddSmall(SubSeq(limbs, 1, Len(limbs) - 1), (limbs[Len(limbs)] + c) \div 8192)
         \o <<(limbs[Len(limbs)] + c) % 8192>>
RECURSIVE TimesSmall(_, _, _)
TimesSmall(limbs, f, c) ==
    IF Len(limbs) = 1 THEN <<limbs[1] * f + c>>
    ELSE TimesSmall(SubSeq(limbs, 1, Len(limbs) - 1), f,
                    (limbs[Len(limbs)] * f + c) \div 8192)
         \o <<(limbs[Len(limbs)] * f + c) % 8192>>

\* `limbs` without its d lowest binary digits (d < 13), rounded to nearest, ties to
\* even, the digits dropped being `low`; written with d zeros in their place
RoundedAt(limbs, d, low) ==
    AddSmall([limbs EXCEPT ![Len(limbs)] = @ - low],
             IF \/ 2 * low > Pow2(d)
                \/ (2 * low = Pow2(d) /\ (limbs[Len(limbs)] \div Pow2(d)) % 2 = 1)
             THEN Pow2(d) ELSE 0)

\* n / t for 0 < n <= t: 53 digits of the quotient, rounded by what is left
FloatDivide(n, t) ==
    [limbs |-> AddSmall(<<1>> \o QuotientLimbs(Scaled(n, t) - t, t, 4),
                        IF \/ 2 * QuotientRest(Scaled(n, t) - t, t, 4) > t
                           \/ /\ 2 * QuotientRest(Scaled(n, t) - t, t, 4) = t
                              /\ QuotientLimbs(Scaled(n, t) - t, t, 4)[4] % 2 = 1
                        THEN 1 ELSE 0),
     scale |-> 52 + Doublings(n, t)]

\* the exact product `product` (five limbs), rounded to 53 binary digits
Rounded(product, scale) ==
    [limbs |-> RoundedAt(product, BitLen(product[1]) - 1,
                         product[Len(product)] % Pow2(BitLen(product[1]) - 1)),
     scale |-> scale]

\* x * 100
FloatTimesHundred(x) == Rounded(TimesSmall(x.limbs, 100, 0), x.scale)

\* int(x) for a float of five limbs and a scale of 52 or more
FloatInt(x) == x.limbs[1] \div Pow2(x.scale - 52)

\* line 182: int(((total - banned_count) / total) * 100) for total > 0
ConformityPct(total, banned_count) ==
    IF total = banned_count THEN 0
    ELSE FloatInt(FloatTimesHundred(FloatDivide(total - banned_count, total)))

\* Recompute that assigns the flag of lines 199-200 on every call
RecomputeFlagAssigned(data, mrl, has_banned, corrected) ==
    LET total == Cardinality(DOMAIN mrl)
        banned_count == Cardinality({k \in DOMAIN mrl : IsBanidoEntry(mrl[k])})
        conformity_pct == IF total > 0 THEN ConformityPct(total, banned_count) ELSE 100
        current_status == Get(data, "status", Str(<< >>))
        risk_score == Get(data, "risk_score", Num(0))
        max_allowed_score == 79
        d1 == IF banned_count > 0 /\ Contains(APPROVED, Upper(current_status.v))
              THEN Put(data, "status", Str(REQUIRES_ATTENTION)) ELSE data
        d2 == IF banned_count > 0 /\ risk_score.v > max_allowed_score
              THEN Put(d1, "risk_score", Num(max_allowed_score)) ELSE d1
        d3 == Put(Put(d2, "lmr_conformity_pct", Num(conformity_pct)),
                  "lmr_banned_count", Num(banned_count))
        d4 == IF has_banned THEN d3 ELSE data
        d5 == Put(d4, "regulatory_correction_applied", Bool(corrected))
    IN IF has_banned /\ banned_count > 0 /\ current_status.t # "str"
       THEN Raise("AttributeError")
       ELSE IF has_banned /\ banned_count > 0 /\ risk_score.t # "num"
       THEN Raise("TypeError")
       ELSE Ok(Put(d5, "max_residue_limits", Dict(mrl)))

\* Recompute without the comparison of line 193: the score of a record with a banned
\* substance is set to the ceiling whatever it was
RecomputeForcingCeiling(data, mrl, has_banned, corrected) ==
    LET total == Cardinality(DOMAIN mrl)
        banned_count == Cardinality({k \in DOMAIN mrl : IsBanidoEntry(mrl[k])})
        conformity_pct == IF total > 0 THEN ConformityPct(total, banned_count) ELSE 100
        current_status == Get(data, "status", Str(<< >>))
        risk_score == Get(data, "risk_score", Num(0))
        max_allowed_score == 79
        d1 == IF banned_count > 0 /\ Contains(APPROVED, Upper(current_status.v))
              THEN Put(data, "status", Str(REQUIRES_ATTENTION)) ELSE data
        d2 == IF banned_count > 0
              THEN Put(d1, "risk_score", Num(max_allowed_score)) ELSE d1
        d3 == Put(Put(d2, "lmr_conformity_pct", Num(conformity_pct)),
                  "lmr_banned_count", Num(banned_count))
        d4 == IF has_banned THEN d3 ELSE data
        d5 == IF corrected THEN Put(d4, "regulatory_correction_applied", Bool(TRUE)) ELSE d4
    IN IF has_banned /\ banned_count > 0 /\ current_status.t # "str"
       THEN Raise("AttributeError")
       ELSE IF has_banned /\ banned_count > 0 /\ risk_score.t # "num"
       THEN Raise("TypeError")
       ELSE Ok(Put(d5, "max_residue_limits", Dict(mrl)))

\* lines 178-203: the recomputation after the loop left mrl, has_banned and corrected
Recompute(data, mrl, has_banned, corrected) ==
    LET total == Cardinality(DOMAIN mrl)
        banned_count == Cardinality({k \in DOMAIN mrl : IsBanidoEntry(mrl[k])})
        conformity_pct == IF total > 0 THEN ConformityPct(total, banned_count) ELSE 100
        current_status == Get(data, "status", Str(<< >>))
        risk_score == Get(data, "risk_score", Num(0))
        max_allowed_score == 79
        d1 == IF banned_count > 0 /\ Contains(APPROVED, Upper(current_status.v))
              THEN Put(data, "status", Str(REQUIRES_ATTENTION)) ELSE data
        d2 == IF banned_count > 0 /\ risk_score.v > max_allowed_score
              THEN Put(d1, "risk_score", Num(max_allowed_score)) ELSE d1
        d3 == Put(Put(d2, "lmr_conformity_pct", Num(conformity_pct)),
                  "lmr_banned_count", Num(banned_count))
        d4 == IF has_banned THEN d3 ELSE data
        d5 == IF corrected THEN Put(d4, "regulatory_correction_applied", Bool(TRUE)) ELSE d4
    IN IF has_banned /\ banned_count > 0 /\ current_status.t # "str"
       THEN Raise("AttributeError")
       ELSE IF has_banned /\ banned_count > 0 /\ risk_score.t # "num"
       THEN Raise("TypeError")
       ELSE Ok(Put(d5, "max_residue_limits", Dict(mrl)))

\* lines 159-203, given what the loop left
AfterScan(data, scan) == Recompute(data, scan.mrl, scan.has_banned, scan.corrected)

\* apply_regulatory_truth(data): the record returned, or the exception raised
apply_regulatory_truth(data) ==
    LET mrlv == Get(data, "max_residue_limits", Dict(EmptyDict))
    IN IF mrlv.t # "dict" THEN Ok(data) ELSE AfterScan(data, ScanLimits(mrlv.v))

-----------------------------------------------------------------------------
(* CONFIGURATION                                                           *)

CACHE_TTL_HOURS == 24
\* line 125: timeout para pesquisa Claude (segundos)
CLAUDE_RESEARCH_TIMEOUT == 90
CLAUDE_MODEL == <<"claude-sonnet-4-20250514">>

\* timedelta(hours=CACHE_TTL_HOURS), in seconds
CacheTtl == CACHE_TTL_HOURS * 3600

\* datetime.fromisoformat("2000-01-01"), in seconds relative to process start
Year2000 == 0 - 800000000

\* datetime.now().isoformat() and datetime.fromisoformat(x)
isoformat(n) == Iso(n)
fromisoformat(x) ==
    IF x.t = "iso" THEN Ok(x.v)
    ELSE IF x.t = "str" THEN Raise("ValueError")
    ELSE Raise("TypeError")

-----------------------------------------------------------------------------
(* KNOWLEDGE BASE: the entries acai and frango_congelado of REFERENCE_DATA, *)
(* with the fields the modelled code reads or writes                        *)

acai == <<"a", "c", "a", "i">>
frango_congelado == <<"f", "r", "a", "n", "g", "o", "_", "c", "o", "n", "g", "e", "l", "a", "d", "o">>

RefAcai ==
    [ncm_code |-> Str(<<"0811.90.10">>),
     product_name |-> Str(<<"Acai (Polpa/Fruto)">>),
     risk_score |-> Num(85),
     risk_level |-> Str(<<"LOW">>),
     status |-> Str(ZOI_APPROVED),
     max_residue_limits |-> Dict(
        (carbendazim :> Dict(Entry("0.01 mg/kg", BANIDO, "Reg. (CE) 396/2005",
            "Banido na UE - mutagenico e toxico para reproducao. Tolerancia zero.")))
        @@ (imidacloprid :> Dict(Entry("0.01 mg/kg", BANIDO, "Reg. Impl. (UE) 2018/783",
            "Banido na UE desde 2018 - neonicotinoide neurotoxico para abelhas.")))
        @@ (thiamethoxam :> Dict(Entry("0.01 mg/kg", BANIDO, "Reg. Impl. (UE) 2018/785",
            "Banido na UE desde 2018 - neonicotinoide neurotoxico para abelhas.")))
        @@ (clothianidin :> Dict(Entry("0.01 mg/kg", BANIDO, "Reg. Impl. (UE) 2018/784",
            "Banido na UE desde 2018 - neonicotinoide neurotoxico para abelhas.")))
        @@ (glyphosate :> Dict(Entry("0.1 mg/kg", CONFORME, "Reg. (CE) 396/2005",
            "MRL 0.1 mg/kg para frutas - posicao NCM 08.")))
        @@ (cypermethrin :> Dict(Entry("0.05 mg/kg", CONFORME, "Reg. (CE) 396/2005",
            "MRL 0.05 mg/kg para frutas - posicao NCM 08.")))),
     alerts |-> List(<< <<"Atencao a cadeia fria - acai e altamente perecivel">> >>)]

RefFrangoCongelado ==
    [ncm_code |-> Str(<<"0207.14.00">>),
     product_name |-> Str(<<"Carne de Frango Congelada (pedacos e miudezas)">>),
     risk_score |-> Num(82),
     risk_level |-> Str(<<"LOW">>),
     status |-> Str(ZOI_APPROVED),
     max_residue_limits |-> Dict(
        (enrofloxacin :> Dict(Entry("0.1 mg/kg", CONFORME, "Reg. (CE) 396/2005",
            "MRL musculo de aves.")))
        @@ (chloramphenicol :> Dict(Entry("0.0003 mg/kg", BANIDO, "Reg. (CE) 1950/2006",
            "Antibiotico banido na UE - tolerancia zero.")))
        @@ (nitrofurans :> Dict(Entry("0.001 mg/kg", BANIDO, "Reg. (CE) 1950/2006",
            "Banido na UE - cancerigeno.")))),
     alerts |-> List(<< <<"Sujeito a controles reforcados na entrada UE - Reg. 2019/1793">>,
                        <<"Analise de Salmonella obrigatoria em cada lote exportado">>,
                        <<"Chloramphenicol e nitrofuranos: tolerancia zero na UE">> >>)]

\* REFERENCE_DATA as the module defines it at import
REFERENCE_DATA_AT_START == (acai :> RefAcai) @@ (frango_congelado :> RefFrangoCongelado)

-----------------------------------------------------------------------------
(* Slugs                                                                   *)

acai_polpa == <<"a", "c", "a", "i", "_", "p", "o", "l", "p", "a">>
frango == <<"f", "r", "a", "n", "g", "o">>
chicken == <<"c", "h", "i", "c", "k", "e", "n">>
frango_partes == <<"f", "r", "a", "n", "g", "o", "_", "p", "a", "r", "t", "e", "s">>

\* SLUG_ALIASES, entry by entry
SLUG_ALIASES ==
    (<<"s", "o", "j", "a">> :> <<"s", "o", "j", "a", "_", "g", "r", "a", "o">>)
    @@ (<<"s", "o", "j", "a", "_", "g", "r", "a", "o", "s">> :> <<"s", "o", "j", "a", "_", "g", "r", "a", "o">>)
    @@ (<<"s", "o", "y", "b", "e", "a", "n", "s">> :> <<"s", "o", "j", "a", "_", "g", "r", "a", "o">>)
    @@ (<<"a", "ç", "a", "í">> :> acai)
    @@ (<<"a", "ç", "a", "i">> :> acai)
    @@ (acai_polpa :> acai)
    @@ (<<"c", "o", "f", "f", "e", "e">> :> <<"c", "a", "f", "e">>)
    @@ (<<"c", "a", "f", "é">> :> <<"c", "a", "f", "e">>)
    @@ (<<"c", "a", "f", "e", "_", "v", "e", "r", "d", "e">> :> <<"c", "a", "f", "e">>)
    @@ (<<"c", "a", "r", "n", "e", "_", "b", "o", "v", "i", "n", "a">> :> <<"c", "a", "r", "n", "e", "_", "b", "o", "v", "i", "n", "a", "_", "c", "o", "n", "g", "e", "l", "a", "d", "a">>)
    @@ (<<"b", "e", "e", "f">> :> <<"c", "a", "r", "n", "e", "_", "b", "o", "v", "i", "n", "a", "_", "c", "o", "n", "g", "e", "l", "a", "d", "a">>)
    @@ (<<"b", "o", "v", "i", "n", "a", "_", "c", "o", "n", "g", "e", "l", "a", "d", "a">> :> <<"c", "a", "r", "n", "e", "_", "b", "o", "v", "i", "n", "a", "_", "c", "o", "n", "g", "e", "l", "a", "d", "a">>)
    @@ (frango :> frango_congelado)
    @@ (chicken :> frango_congelado)
    @@ (frango_partes :> frango_congelado)
    @@ (<<"c", "a", "m", "a", "r", "o">> :> <<"c", "a", "m", "a", "r", "o", "_", "c", "o", "n", "g", "e", "l", "a", "d", "o">>)
    @@ (<<"c", "a", "m", "a", "r", "ã", "o">> :> <<"c", "a", "m", "a", "r", "o", "_", "c", "o", "n", "g", "e", "l", "a", "d", "o">>)
    @@ (<<"s", "h", "r", "i", "m", "p">> :> <<"c", "a", "m", "a", "r", "o", "_", "c", "o", "n", "g", "e", "l", "a", "d", "o">>)
    @@ (<<"s", "u", "c", "o", "_", "l", "a", "r", "a", "n", "j", "a">> :> <<"s", "u", "c", "o", "_", "l", "a", "r", "a", "n", "j", "a", "_", "c", "o", "n", "g", "e", "l", "a", "d", "o">>)
    @@ (<<"f", "c", "o", "j">> :> <<"s", "u", "c", "o", "_", "l", "a", "r", "a", "n", "j", "a", "_", "c", "o", "n", "g", "e", "l", "a", "d", "o">>)
    @@ (<<"o", "r", "a", "n", "g", "e", "_", "j", "u", "i", "c", "e">> :> <<"s", "u", "c", "o", "_", "l", "a", "r", "a", "n", "j", "a", "_", "c", "o", "n", "g", "e", "l", "a", "d", "o">>)
    @@ (<<"m", "a", "r", "a", "c", "u", "j", "a">> :> <<"p", "o", "l", "p", "a", "_", "m", "a", "r", "a", "c", "u", "j", "a">>)
    @@ (<<"m", "a", "r", "a", "c", "u", "j", "á">> :> <<"p", "o", "l", "p", "a", "_", "m", "a", "r", "a", "c", "u", "j", "a">>)
    @@ (<<"p", "a", "s", "s", "i", "o", "n", "_", "f", "r", "u", "i", "t">> :> <<"p", "o", "l", "p", "a", "_", "m", "a", "r", "a", "c", "u", "j", "a">>)
    @@ (<<"m", "a", "n", "g", "a">> :> <<"m", "a", "n", "g", "a", "_", "f", "r", "e", "s", "c", "a">>)
    @@ (<<"m", "a", "n", "g", "o">> :> <<"m", "a", "n", "g", "a", "_", "f", "r", "e", "s", "c", "a">>)
    @@ (<<"t", "i", "l", "a", "p", "i", "a">> :> <<"f", "i", "l", "e", "_", "t", "i", "l", "a", "p", "i", "a", "_", "c", "o", "n", "g", "e", "l", "a", "d", "o">>)
    @@ (<<"t", "i", "l", "á", "p", "i", "a">> :> <<"f", "i", "l", "e", "_", "t", "i", "l", "a", "p", "i", "a", "_", "c", "o", "n", "g", "e", "l", "a", "d", "o">>)
    @@ (<<"f", "i", "l", "e", "_", "t", "i", "l", "a", "p", "i", "a">> :> <<"f", "i", "l", "e", "_", "t", "i", "l", "a", "p", "i", "a", "_", "c", "o", "n", "g", "e", "l", "a", "d", "o">>)
    @@ (<<"c", "a", "r", "n", "e", "_", "s", "u", "i", "n", "a">> :> <<"c", "a", "r", "n", "e", "_", "s", "u", "i", "n", "a", "_", "c", "o", "n", "g", "e", "l", "a", "d", "a">>)
    @@ (<<"s", "u", "i", "n", "a">> :> <<"c", "a", "r", "n", "e", "_", "s", "u", "i", "n", "a", "_", "c", "o", "n", "g", "e", "l", "a", "d", "a">>)
    @@ (<<"p", "o", "r", "k">> :> <<"c", "a", "r", "n", "e", "_", "s", "u", "i", "n", "a", "_", "c", "o", "n", "g", "e", "l", "a", "d", "a">>)
    @@ (<<"m", "e", "l", "a", "o">> :> <<"m", "e", "l", "a", "o", "_", "f", "r", "e", "s", "c", "o">>)
    @@ (<<"m", "e", "l", "ã", "o">> :> <<"m", "e", "l", "a", "o", "_", "f", "r", "e", "s", "c", "o">>)
    @@ (<<"m", "e", "l", "o", "n">> :> <<"m", "e", "l", "a", "o", "_", "f", "r", "e", "s", "c", "o">>)
    @@ (<<"u", "v", "a">> :> <<"u", "v", "a", "_", "f", "r", "e", "s", "c", "a", "_", "e", "x", "p", "o", "r", "t", "a", "c", "a", "o">>)
    @@ (<<"g", "r", "a", "p", "e">> :> <<"u", "v", "a", "_", "f", "r", "e", "s", "c", "a", "_", "e", "x", "p", "o", "r", "t", "a", "c", "a", "o">>)
    @@ (<<"m", "a", "c", "a">> :> <<"m", "a", "c", "a", "_", "i", "t", "a", "l", "i", "a", "n", "a">>)
    @@ (<<"m", "a", "ç", "ã">> :> <<"m", "a", "c", "a", "_", "i", "t", "a", "l", "i", "a", "n", "a">>)
    @@ (<<"a", "p", "p", "l", "e">> :> <<"m", "a", "c", "a", "_", "i", "t", "a", "l", "i", "a", "n", "a">>)
    @@ (<<"m", "e", "l", "e">> :> <<"m", "a", "c", "a", "_", "i", "t", "a", "l", "i", "a", "n", "a">>)
    @@ (<<"m", "o", "z", "z", "a", "r", "e", "l", "l", "a">> :> <<"m", "o", "z", "z", "a", "r", "e", "l", "l", "a", "_", "f", "r", "e", "s", "c", "a">>)
    @@ (<<"m", "o", "z", "a", "r", "e", "l", "a">> :> <<"m", "o", "z", "z", "a", "r", "e", "l", "l", "a", "_", "f", "r", "e", "s", "c", "a">>)
    @@ (<<"p", "a", "r", "m", "i", "g", "i", "a", "n", "o">> :> <<"p", "a", "r", "m", "i", "g", "i", "a", "n", "o", "_", "r", "e", "g", "g", "i", "a", "n", "o">>)
    @@ (<<"g", "r", "a", "n", "a", "_", "p", "a", "d", "a", "n", "o">> :> <<"p", "a", "r", "m", "i", "g", "i", "a", "n", "o", "_", "r", "e", "g", "g", "i", "a", "n", "o">>)
    @@ (<<"p", "a", "r", "m", "e", "s", "a", "o">> :> <<"p", "a", "r", "m", "i", "g", "i", "a", "n", "o", "_", "r", "e", "g", "g", "i", "a", "n", "o">>)
    @@ (<<"p", "r", "o", "s", "c", "i", "u", "t", "t", "o">> :> <<"p", "r", "o", "s", "c", "i", "u", "t", "t", "o", "_", "d", "i", "_", "p", "a", "r", "m", "a">>)
    @@ (<<"p", "r", "e", "s", "u", "n", "t", "o", "_", "i", "t", "a", "l", "i", "a", "n", "o">> :> <<"p", "r", "o", "s", "c", "i", "u", "t", "t", "o", "_", "d", "i", "_", "p", "a", "r", "m", "a">>)
    @@ (<<"s", "a", "n", "_", "d", "a", "n", "i", "e", "l", "e">> :> <<"p", "r", "o", "s", "c", "i", "u", "t", "t", "o", "_", "d", "i", "_", "p", "a", "r", "m", "a">>)
    @@ (<<"t", "o", "m", "a", "t", "e", "_", "p", "e", "l", "a", "d", "o">> :> <<"t", "o", "m", "a", "t", "e", "_", "p", "e", "l", "a", "d", "o", "_", "i", "t", "a", "l", "i", "a", "n", "o">>)
    @@ (<<"p", "e", "l", "a", "t", "i">> :> <<"t", "o", "m", "a", "t", "e", "_", "p", "e", "l", "a", "d", "o", "_", "i", "t", "a", "l", "i", "a", "n", "o">>)
    @@ (<<"t", "r", "u", "f", "a">> :> <<"t", "r", "u", "f", "a", "_", "f", "r", "e", "s", "c", "a">>)
    @@ (<<"t", "a", "r", "t", "u", "f", "o">> :> <<"t", "r", "u", "f", "a", "_", "f", "r", "e", "s", "c", "a">>)
    @@ (<<"t", "r", "u", "f", "f", "l", "e">> :> <<"t", "r", "u", "f", "a", "_", "f", "r", "e", "s", "c", "a">>)
    @@ (<<"k", "i", "w", "i">> :> <<"k", "i", "w", "i", "_", "f", "r", "e", "s", "c", "o", "_", "i", "t", "a", "l", "i", "a", "n", "o">>)
    @@ (<<"p", "e", "r", "a">> :> <<"p", "e", "r", "a", "_", "f", "r", "e", "s", "c", "a", "_", "i", "t", "a", "l", "i", "a", "n", "a">>)
    @@ (<<"p", "e", "a", "r">> :> <<"p", "e", "r", "a", "_", "f", "r", "e", "s", "c", "a", "_", "i", "t", "a", "l", "i", "a", "n", "a">>)

\* normalize_slug without lower()
NormalizeSlugCaseKept(slug) ==
    LET normalized == Replace(Replace(Strip(slug), "-", "_"), " ", "_")
    IN Get(SLUG_ALIASES, normalized, normalized)

\* normalize_slug with lower() applied to the result instead of the argument
NormalizeSlugLowerLast(slug) ==
    LET normalized == Replace(Replace(Strip(slug), "-", "_"), " ", "_")
    IN Lower(Get(SLUG_ALIASES, normalized, normalized))

normalize_slug(slug) ==
    LET normalized == Replace(Replace(Strip(Lower(slug)), "-", "_"), " ", "_")
    IN Get(SLUG_ALIASES, normalized, normalized)

\* line 1576: product_slug.replace("_", " ").replace("-", " ").title()
ProductName(product_slug) == Title(Replace(Replace(product_slug, "_", " "), "-", " "))

TRADE_ROUTE_BR_IT ==
    Dict([origin |-> Str(<<"BR">>), destination |-> Str(<<"IT">>),
          origin_name |-> Str(<<"Brasil">>), destination_name |-> Str(<<"Italia">>)])

make_unknown_product_template(product_name) ==
    [ncm_code |-> Str(<<"PESQUISA_EM_ANDAMENTO">>),
     product_name |-> Str(product_name),
     risk_score |-> Num(50),
     risk_level |-> Str(<<"PENDING">>),
     status |-> Str(RESEARCHING),
     trade_route |-> TRADE_ROUTE_BR_IT,
     max_residue_limits |-> Dict(EmptyDict),
     alerts |-> List(<< <<"Pesquisa IA em andamento para '">> \o product_name \o <<"'...">>,
                        <<"Os dados serao atualizados automaticamente quando a pesquisa completar.">>,
                        <<"Voce tambem pode clicar 'Atualizar via IA' para verificar.">> >>),
     data_source |-> Str(<<"template_pending_research">>),
     needs_ai_update |-> Bool(TRUE)]

-----------------------------------------------------------------------------
(* Cache                                                                   *)

None == Null

\* CacheHit with `<=` at line 216: an entry is still served at the age of the TTL
CacheHitInclusive(cache, slug, t) ==
    /\ slug \in DOMAIN cache
    /\ LET cached_time == fromisoformat(Get(cache[slug], "last_updated", Iso(Year2000)))
       IN cached_time.ok /\ t - cached_time.val <= CacheTtl

\* CacheHit with `return cached` in the except clause of line 218: an entry whose
\* timestamp cannot be read is served
CacheHitFailOpen(cache, slug, t) ==
    /\ slug \in DOMAIN cache
    /\ LET cached_time == fromisoformat(Get(cache[slug], "last_updated", Iso(Year2000)))
       IN cached_time.ok => t - cached_time.val < CacheTtl

\* lines 212-217: whether get_cached returns the stored entry
CacheHit(cache, slug, t) ==
    /\ slug \in DOMAIN cache
    /\ LET cached_time == fromisoformat(Get(cache[slug], "last_updated", Iso(Year2000)))
       IN cached_time.ok /\ t - cached_time.val < CacheTtl

\* the value get_cached returns at time t
get_cached(cache, slug, t) == IF CacheHit(cache, slug, t) THEN cache[slug] ELSE None

\* get_cached_store that stamps the entry it returns with the time of the read
get_cached_storeTouching(cache, slug, t) ==
    IF slug \in DOMAIN cache
    THEN IF CacheHit(cache, slug, t)
         THEN Put(cache, slug, Put(cache[slug], "last_updated", isoformat(t)))
         ELSE Del(cache, slug)
    ELSE cache

\* get_cached_store that deletes every entry that is not fresh, whatever its key
get_cached_storePurging(cache, slug, t) ==
    IF slug \in DOMAIN cache /\ ~CacheHit(cache, slug, t)
    THEN [k \in {j \in DOMAIN cache : CacheHit(cache, j, t)} |-> cache[k]] @@ EmptyDict
    ELSE cache

\* PRODUCT_CACHE after get_cached (line 220 deletes an entry that is not returned)
get_cached_store(cache, slug, t) ==
    IF slug \in DOMAIN cache /\ ~CacheHit(cache, slug, t) THEN Del(cache, slug) ELSE cache

\* set_cached(slug, data): the record stored (and, being the same object, `data` after)
Stamped(data, t) == Put(data, "last_updated", isoformat(t))
set_cached(cache, slug, data, t) == Put(cache, slug, Stamped(data, t))

-----------------------------------------------------------------------------
(* Provider text.  A text is a sequence of tokens: white space, prose       *)
(* without braces or fences, a ``` fence, the word json right after a       *)
(* fence, a complete JSON object (with the dict it parses to) and a         *)
(* complete JSON value that is not an object.                               *)

WS == [k |-> "ws"]
PROSE == [k |-> "prose"]
FENCE == [k |-> "fence"]
TAG == [k |-> "tag"]
VAL == [k |-> "val"]
OBJ(p) == [k |-> "obj", v |-> p]

\* lines 277-283: the text of the blocks that have one, in the order of the blocks
\* (a block is [type, text] or, as a tool_use block, [type])
RECURSIVE _extract_text_from_blocks(_)
_extract_text_from_blocks(content_blocks) ==
    IF content_blocks = << >> THEN << >>
    ELSE (IF "text" \in DOMAIN Head(content_blocks) /\ Head(content_blocks).text # << >>
          THEN Head(content_blocks).text ELSE << >>)
         \o _extract_text_from_blocks(Tail(content_blocks))

\* text.strip() on tokens
StripText(text) ==
    IF \A i \in 1..Len(text) : text[i] = WS
    THEN << >>
    ELSE LET first == CHOOSE i \in 1..Len(text) :
                         text[i] # WS /\ \A j \in 1..(i - 1) : text[j] = WS
             last == CHOOSE i \in 1..Len(text) :
                         text[i] # WS /\ \A j \in (i + 1)..Len(text) : text[j] = WS
         IN SubSeq(text, first, last)

\* json.loads(text): the token parsed, or JSONDecodeError
json_loads(text) ==
    LET s == StripText(text)
    IN IF Len(s) = 1 /\ s[1].k \in {"obj", "val"} THEN Ok(s[1]) ELSE Raise("JSONDecodeError")

\* lines 290-296: JSON direto
ParseDirect(text_content) ==
    LET data == json_loads(StripText(text_content))
    IN IF data.ok /\ data.val.k = "obj" /\ "ncm_code" \in DOMAIN data.val.v
       THEN data.val.v ELSE None

\* FencedGroup that takes the last match, as re.findall(...)[-1] would
FencedGroupLast(text_content) ==
    LET fences == {i \in 1..Len(text_content) : text_content[i] = FENCE}
    IN IF Cardinality(fences) < 2 THEN None
       ELSE LET close == CHOOSE j \in fences : \A m \in fences : m <= j
                before == {i \in fences : i < close}
                open == CHOOSE i \in before : \A m \in before : m <= i
                body == IF text_content[open + 1] = TAG THEN open + 2 ELSE open + 1
            IN Ok(SubSeq(text_content, body, close - 1))

\* FencedGroup that looks for a block tagged json first and for any block after that
FencedGroupTaggedFirst(text_content) ==
    LET fences == {i \in 1..Len(text_content) : text_content[i] = FENCE}
        tagged == {i \in fences : i < Len(text_content) /\ text_content[i + 1] = TAG}
    IN IF Cardinality(fences) < 2 THEN None
       ELSE LET open == IF tagged # {}
                        THEN CHOOSE i \in tagged : \A j \in tagged : i <= j
                        ELSE CHOOSE i \in fences : \A j \in fences : i <= j
                body == IF text_content[open + 1] = TAG THEN open + 2 ELSE open + 1
                after == {j \in fences : j >= body}
                close == CHOOSE j \in after : \A m \in after : j <= m
            IN Ok(SubSeq(text_content, body, close - 1))

\* line 299: re.search(r'```(?:json)?\s*([\s\S]*?)\s*```', text): group(1), or None
FencedGroup(text_content) ==
    LET fences == {i \in 1..Len(text_content) : text_content[i] = FENCE}
    IN IF Cardinality(fences) < 2 THEN None
       ELSE LET open == CHOOSE i \in fences : \A j \in fences : i <= j
                body == IF text_content[open + 1] = TAG THEN open + 2 ELSE open + 1
                after == {j \in fences : j >= body}
                close == CHOOSE j \in after : \A m \in after : j <= m
            IN Ok(SubSeq(text_content, body, close - 1))

\* lines 298-306: bloco ```json ... ```
ParseFenced(text_content) ==
    LET match == FencedGroup(text_content)
    IN IF match = None THEN None
       ELSE LET data == json_loads(StripText(match.val))
            IN IF data.ok /\ data.val.k = "obj" THEN data.val.v ELSE None

\* line 309: re.search(r'(\{[\s\S]*?"ncm_code"[\s\S]*?\})\s*$', text): group(1), or None.
\* The match starts at the first brace of the text and ends at its last character.
InlineGroup(text_content) ==
    LET s == StripText(text_content)
        braces == {i \in 1..Len(s) : s[i].k = "obj"}
    IN IF braces = {} \/ s[Len(s)].k # "obj" THEN None
       ELSE LET first == CHOOSE i \in braces : \A j \in braces : i <= j
            IN IF \E i \in braces : "ncm_code" \in DOMAIN s[i].v
               THEN Ok(SubSeq(s, first, Len(s))) ELSE None

\* lines 308-316: objeto JSON inline
ParseInline(text_content) ==
    LET match == InlineGroup(text_content)
    IN IF match = None THEN None
       ELSE LET data == json_loads(match.val)
            IN IF data.ok /\ data.val.k = "obj" THEN data.val.v ELSE None

\* the first attempt that returned
FirstParsed(direct, fenced, inline) ==
    IF direct # None THEN direct ELSE IF fenced # None THEN fenced ELSE inline

_parse_compliance_json(text_content) ==
    FirstParsed(ParseDirect(text_content), ParseFenced(text_content), ParseInline(text_content))

\* Python truth value of an Optional[Dict]
Truthy(d) == d # None /\ DOMAIN d # {}

-----------------------------------------------------------------------------
(* research_product_via_claude                                             *)

MAX_TURNS == 8

\* lines 250-263: the fields of the JSON that the research prompt asks for, those that
\* the payloads of this model carry
SchemaFields == {"ncm_code", "risk_score", "status", "max_residue_limits"}

\* Enrich that keeps a data_source the payload brings (setdefault at line 435)
EnrichKeepingSource(compliance_data, t) ==
    LET d1 == IF "data_source" \in DOMAIN compliance_data THEN compliance_data
              ELSE Put(compliance_data, "data_source", Str(<<"claude_ai_realtime">>))
        d2 == Put(d1, "claude_model", Str(CLAUDE_MODEL))
        d3 == Put(d2, "needs_ai_update", Bool(FALSE))
        d4 == Put(d3, "last_updated", isoformat(t))
    IN IF "trade_route" \in DOMAIN d4 THEN d4 ELSE Put(d4, "trade_route", TRADE_ROUTE_BR_IT)

\* lines 434-442: enriquecer com metadados
Enrich(compliance_data, t) ==
    LET d1 == Put(compliance_data, "data_source", Str(<<"claude_ai_realtime">>))
        d2 == Put(d1, "claude_model", Str(CLAUDE_MODEL))
        d3 == Put(d2, "needs_ai_update", Bool(FALSE))
        d4 == Put(d3, "last_updated", isoformat(t))
    IN IF "trade_route" \in DOMAIN d4 THEN d4 ELSE Put(d4, "trade_route", TRADE_ROUTE_BR_IT)

\* lines 445-449 and 459-462: the task status recorded and the value returned once
\* apply_regulatory_truth returned or raised
Validated(validated) ==
    IF validated.ok
    THEN [status |-> "completed", value |-> validated.val]
    ELSE [status |-> "error", value |-> None]

\* Conclude without line 445: the enriched record is returned as the provider gave it
ConcludeUnvalidated(compliance_data, t) ==
    IF ~Truthy(compliance_data)
    THEN [status |-> "parse_error", value |-> None]
    ELSE [status |-> "completed", value |-> Enrich(compliance_data, t)]

\* Conclude that raises at line 429 on a missing record: the handler of line 459
\* records the status error
ConcludeRaising(compliance_data, t) ==
    IF ~Truthy(compliance_data)
    THEN [status |-> "error", value |-> None]
    ELSE Validated(apply_regulatory_truth(Enrich(compliance_data, t)))

\* lines 429-449 and 459-462: the end of a run that has its compliance_data:
\* the task status it records and the value it returns
Conclude(compliance_data, t) ==
    IF ~Truthy(compliance_data)
    THEN [status |-> "parse_error", value |-> None]
    ELSE Validated(apply_regulatory_truth(Enrich(compliance_data, t)))

\* ExceptStatus with the clause of APIError before that of APITimeoutError, its
\* subclass: a timeout is recorded as api_error
ExceptStatusApiFirst(exc) ==
    IF exc \in {"APITimeoutError", "APIError"} THEN "api_error"
    ELSE "error"

\* lines 451-462: the status recorded for an exception of the provider call
ExceptStatus(exc) ==
    IF exc = "APITimeoutError" THEN "timeout"
    ELSE IF exc = "APIError" THEN "api_error"
    ELSE "error"

\* LoopContinues of a `while True:` loop in the place of line 354
LoopContinuesUnbounded(run, resp) ==
    resp.stop_reason = "tool_use" /\ resp.tool_use

\* lines 372-405: whether the loop makes another call after this response
LoopContinues(run, resp) ==
    resp.stop_reason = "tool_use" /\ resp.tool_use /\ run.turn + 1 < MAX_TURNS

\* lines 411-414: whether compliance_data, parsed from the text of the loop, sends
\* the run to the fallback call
NeedsFallback(text_content, parsed) ==
    ~Truthy(IF StripText(text_content) # << >> THEN parsed ELSE None)

\* a run that ended: [done, run, status, value]
Finished(run, c) == [done |-> TRUE, run |-> run, status |-> c.status, value |-> c.value]

\* lines 372-449, given the text gathered so far and what it parses to
AfterResponse(run, resp, t, text_content, parsed) ==
    IF run.phase = "loop" /\ LoopContinues(run, resp)
    THEN [done |-> FALSE,
          run |-> [run EXCEPT !.turn = @ + 1, !.text = text_content],
          status |-> "running", value |-> None]
    ELSE IF run.phase = "loop" /\ NeedsFallback(text_content, parsed)
    THEN [done |-> FALSE,
          run |-> [run EXCEPT !.phase = "fallback", !.text = text_content],
          status |-> "running", value |-> None]
    ELSE Finished(run, Conclude(parsed, t))

\* the text parsed after a response: the text of the loop so far (line 376), or the
\* text of the fallback message alone (line 424)
TextAfter(run, resp) ==
    IF run.phase = "fallback" THEN resp.text ELSE run.text \o resp.text

\* One provider response delivered to a suspended run: [done, run, status, value].
ResearchStep(run, resp, t) ==
    IF resp.exc # "none"
    THEN [done |-> TRUE, run |-> run, status |-> ExceptStatus(resp.exc), value |-> None]
    ELSE AfterResponse(run, resp, t, TextAfter(run, resp),
                       _parse_compliance_json(TextAfter(run, resp)))

\* lines 337-341: the task record a starting run stores
StartTask(tasks, product_slug, t) ==
    Put(tasks, product_slug, [status |-> "running", started_at |-> isoformat(t)])

\* CLAUDE_RESEARCH_TASKS[product_slug]["status"] = status
SetTaskStatus(tasks, product_slug, status) ==
    Put(tasks, product_slug, [tasks[product_slug] EXCEPT !.status = status])

\* a run suspended at its first provider call
NewRun(origin, product_slug, slug, product_name) ==
    [origin |-> origin, key |-> product_slug, slug |-> slug, name |-> product_name,
     phase |-> "loop", turn |-> 0, text |-> << >>]

\* ResearchBegin without the test of line 333: the task is recorded and the provider
\* called whether or not there is a credential
ResearchBeginUnguarded(tasks, rs, n, product_slug, product_name, t) ==
    [returned |-> FALSE, value |-> None, warning |-> "",
     tasks |-> StartTask(tasks, product_slug, t),
     runs |-> Append(rs, NewRun("direct", product_slug, product_slug, product_name)),
     calls |-> n + 1]

\* lines 333-353: research_product_via_claude(product_slug, product_name) up to its
\* first await (rs the runs in flight, n the provider calls made): whether it returned
\* and what, the warning it logged, and the task records, runs and provider calls it leaves
ResearchBegin(tasks, rs, n, product_slug, product_name, t) ==
    IF ANTHROPIC_API_KEY = ""
    THEN [returned |-> TRUE, value |-> None,
          warning |-> "ANTHROPIC_API_KEY nao configurada",
          tasks |-> tasks, runs |-> rs, calls |-> n]
    ELSE [returned |-> FALSE, value |-> None, warning |-> "",
          tasks |-> StartTask(tasks, product_slug, t),
          runs |-> Append(rs, NewRun("direct", product_slug, product_slug, product_name)),
          calls |-> n + 1]

-----------------------------------------------------------------------------
(* CORE: get_product_data                                                  *)

Configured == ANTHROPIC_API_KEY # ""

\* what get_product_data hands back: a record returned at a source line, or an exception
Returned(product_slug, force_refresh, data, line) ==
    [key |-> product_slug, force |-> force_refresh, raised |-> "none",
     data |-> data, line |-> line]
Raised(product_slug, force_refresh, exc, line) ==
    [key |-> product_slug, force |-> force_refresh, raised |-> exc,
     data |-> None, line |-> line]

\* data = {**REFERENCE_DATA[slug]} shares the max_residue_limits dict with the
\* reference entry: what apply_regulatory_truth stores in it shows in REFERENCE_DATA
SharedLimits(ref, slug, data, validated) ==
    IF slug \in DOMAIN ref /\ Get(data, "data_source", Null) = Str(<<"reference_knowledge">>)
    THEN Put(ref, slug, Put(ref[slug], "max_residue_limits",
                            IF validated.ok THEN validated.val["max_residue_limits"]
                            ELSE LimitsAfter(data)))
    ELSE ref

\* KnowledgeValidated without the set_cached of line 1609
KnowledgeValidatedUncached(cache, ref, sched, product_slug, force_refresh, t, slug, data, validated) ==
    IF validated.ok
    THEN [cache |-> cache,
          ref |-> SharedLimits(ref, slug, data, validated),
          sched |-> sched,
          result |-> Returned(product_slug, force_refresh, Stamped(validated.val, t), 1610)]
    ELSE [cache |-> cache,
          ref |-> SharedLimits(ref, slug, data, validated),
          sched |-> sched,
          result |-> Raised(product_slug, force_refresh, validated.exc, 1608)]

\* lines 1607-1610: the reference copy `data` after apply_regulatory_truth returned
\* or raised
KnowledgeValidated(cache, ref, sched, product_slug, force_refresh, t, slug, data, validated) ==
    IF validated.ok
    THEN [cache |-> set_cached(cache, slug, validated.val, t),
          ref |-> SharedLimits(ref, slug, data, validated),
          sched |-> sched,
          result |-> Returned(product_slug, force_refresh, Stamped(validated.val, t), 1610)]
    ELSE [cache |-> cache,
          ref |-> SharedLimits(ref, slug, data, validated),
          sched |-> sched,
          result |-> Raised(product_slug, force_refresh, validated.exc, 1608)]

\* lines 1596-1600: data = {**REFERENCE_DATA[slug]} and its four fields
KnowledgeCopy(entry, t) ==
    Put(Put(Put(Put(entry, "data_source", Str(<<"reference_knowledge">>)),
                "needs_ai_update", Bool(TRUE)),
            "last_updated", isoformat(t)),
        "data_source_note", Str(<<"Dados de referencia verificados.">>))

\* KnowledgeBase without line 1608: the reference copy is cached and returned as it is
KnowledgeBaseUnvalidated(cache, ref, sched, product_slug, force_refresh, t, slug) ==
    KnowledgeValidated(cache, ref, sched, product_slug, force_refresh, t, slug,
                       KnowledgeCopy(ref[slug], t), Ok(KnowledgeCopy(ref[slug], t)))

\* lines 1594-1610: knowledge base
KnowledgeBase(cache, ref, sched, product_slug, force_refresh, t, slug) ==
    KnowledgeValidated(cache, ref, sched, product_slug, force_refresh, t, slug,
                       KnowledgeCopy(ref[slug], t),
                       apply_regulatory_truth(KnowledgeCopy(ref[slug], t)))

\* lines 1614-1615: the template, stamped
UnknownTemplate(product_name, t) ==
    Put(make_unknown_product_template(product_name), "last_updated", isoformat(t))

\* lines 1619-1620: the template of a product whose research was scheduled
StartedInBackground(data, product_name) ==
    Put(Put(data, "claude_research_status", Str(<<"started_in_background">>)),
        "alerts",
        List([data["alerts"].v EXCEPT
                 ![1] = <<"Pesquisa Claude IA iniciada para '">> \o product_name \o <<"'...">>]))

\* line 1622: the template when there is no credential
NOT_CONFIGURED_ALERT == <<"Claude AI nao configurado. Configure ANTHROPIC_API_KEY no Render.">>
NotConfigured(data) ==
    Put(data, "alerts", List(Append(data["alerts"].v, NOT_CONFIGURED_ALERT)))

\* lines 1612-1624 with `if background_tasks:` at line 1617: the task is added
\* whether or not there is a credential
UnknownProductUnguarded(cache, ref, sched, product_slug, force_refresh, background_tasks, t, slug) ==
    IF background_tasks
    THEN [cache |-> cache, ref |-> ref,
          sched |-> Append(sched, [slug |-> slug, name |-> ProductName(product_slug)]),
          result |-> Returned(product_slug, force_refresh,
                              StartedInBackground(UnknownTemplate(ProductName(product_slug), t),
                                                  ProductName(product_slug)), 1624)]
    ELSE IF ~Configured
    THEN [cache |-> cache, ref |-> ref, sched |-> sched,
          result |-> Returned(product_slug, force_refresh,
                              NotConfigured(UnknownTemplate(ProductName(product_slug), t)), 1624)]
    ELSE [cache |-> cache, ref |-> ref, sched |-> sched,
          result |-> Returned(product_slug, force_refresh,
                              UnknownTemplate(ProductName(product_slug), t), 1624)]

\* lines 1612-1624: produto desconhecido
UnknownProduct(cache, ref, sched, product_slug, force_refresh, background_tasks, t, slug) ==
    IF Configured /\ background_tasks
    THEN [cache |-> cache, ref |-> ref,
          sched |-> Append(sched, [slug |-> slug, name |-> ProductName(product_slug)]),
          result |-> Returned(product_slug, force_refresh,
                              StartedInBackground(UnknownTemplate(ProductName(product_slug), t),
                                                  ProductName(product_slug)), 1624)]
    ELSE IF ~Configured
    THEN [cache |-> cache, ref |-> ref, sched |-> sched,
          result |-> Returned(product_slug, force_refresh,
                              NotConfigured(UnknownTemplate(ProductName(product_slug), t)), 1624)]
    ELSE [cache |-> cache, ref |-> ref, sched |-> sched,
          result |-> Returned(product_slug, force_refresh,
                              UnknownTemplate(ProductName(product_slug), t), 1624)]

\* Fallback as the docstring of get_product_data has it (lines 1568-1574): the knowledge
\* base branch adds the background task too
FallbackScheduling(cache, ref, sched, product_slug, force_refresh, background_tasks, t, slug) ==
    IF slug \in DOMAIN ref
    THEN KnowledgeBase(cache, ref,
                       IF Configured /\ background_tasks
                       THEN Append(sched, [slug |-> slug, name |-> ProductName(product_slug)])
                       ELSE sched,
                       product_slug, force_refresh, t, slug)
    ELSE UnknownProduct(cache, ref, sched, product_slug, force_refresh, background_tasks,
                        t, slug)

\* Fallback that answers a forced refresh of a product outside REFERENCE_DATA with
\* HTTPException(404) instead of the template
FallbackNotFound(cache, ref, sched, product_slug, force_refresh, background_tasks, t, slug) ==
    IF slug \in DOMAIN ref
    THEN KnowledgeBase(cache, ref, sched, product_slug, force_refresh, t, slug)
    ELSE IF force_refresh
    THEN [cache |-> cache, ref |-> ref, sched |-> sched,
          result |-> Raised(product_slug, force_refresh, "HTTPException", 1624)]
    ELSE UnknownProduct(cache, ref, sched, product_slug, force_refresh, background_tasks,
                        t, slug)

\* Fallback that serves the entry PRODUCT_CACHE still holds, whatever its age, before it
\* turns to the knowledge base and the template
FallbackServingStale(cache, ref, sched, product_slug, force_refresh, background_tasks, t, slug) ==
    IF slug \in DOMAIN cache
    THEN [cache |-> cache, ref |-> ref, sched |-> sched,
          result |-> Returned(product_slug, force_refresh, cache[slug], 1584)]
    ELSE IF slug \in DOMAIN ref
    THEN KnowledgeBase(cache, ref, sched, product_slug, force_refresh, t, slug)
    ELSE UnknownProduct(cache, ref, sched, product_slug, force_refresh, background_tasks,
                        t, slug)

\* lines 1594-1624: what get_product_data does once cache and research gave nothing
Fallback(cache, ref, sched, product_slug, force_refresh, background_tasks, t, slug) ==
    IF slug \in DOMAIN ref
    THEN KnowledgeBase(cache, ref, sched, product_slug, force_refresh, t, slug)
    ELSE UnknownProduct(cache, ref, sched, product_slug, force_refresh, background_tasks,
                        t, slug)

\* ServeValidated that also adds a background task to refresh the entry it serves
ServeValidatedRefreshing(cache, ref, sched, product_slug, slug, annotated, validated) ==
    [cache |-> Put(cache, slug, IF validated.ok THEN validated.val
                                ELSE Put(annotated, "max_residue_limits", LimitsAfter(annotated))),
     ref |-> SharedLimits(ref, slug, annotated, validated),
     sched |-> Append(sched, [slug |-> slug, name |-> ProductName(product_slug)]),
     result |-> IF validated.ok
                THEN Returned(product_slug, FALSE, validated.val, 1584)
                ELSE Raised(product_slug, FALSE, validated.exc, 1584)]

\* lines 1581-1584: the cached record, annotated, after apply_regulatory_truth returned
\* or raised (cached is the object PRODUCT_CACHE holds)
ServeValidated(cache, ref, sched, product_slug, slug, annotated, validated) ==
    [cache |-> Put(cache, slug, IF validated.ok THEN validated.val
                                ELSE Put(annotated, "max_residue_limits", LimitsAfter(annotated))),
     ref |-> SharedLimits(ref, slug, annotated, validated),
     sched |-> sched,
     result |-> IF validated.ok
                THEN Returned(product_slug, FALSE, validated.val, 1584)
                ELSE Raised(product_slug, FALSE, validated.exc, 1584)]

\* lines 1578-1584: the cache branch, entered when get_cached returned `cached`
ServeCached(cache, ref, sched, product_slug, slug, cached) ==
    ServeValidated(cache, ref, sched, product_slug, slug,
                   Put(cached, "data_source_note", Str(<<"Dados em cache">>)),
                   apply_regulatory_truth(Put(cached, "data_source_note", Str(<<"Dados em cache">>))))

\* lines 1575-1624 with force_refresh=False, slug being normalize_slug(product_slug)
Lookup(cache, ref, sched, product_slug, background_tasks, t, slug) ==
    IF Truthy(get_cached(cache, slug, t))
    THEN ServeCached(get_cached_store(cache, slug, t), ref, sched, product_slug, slug,
                     get_cached(cache, slug, t))
    ELSE Fallback(get_cached_store(cache, slug, t), ref, sched, product_slug, FALSE,
                  background_tasks, t, slug)

\* get_product_data(product_slug, force_refresh=False, background_tasks): no await
\* is reached, so the call is one step
get_product_data(cache, ref, sched, product_slug, background_tasks, t) ==
    Lookup(cache, ref, sched, product_slug, background_tasks, t, normalize_slug(product_slug))

-----------------------------------------------------------------------------
(* The environment: requests, the clock and the provider                   *)

MaxRuns == 1        \* research runs in flight at once
MaxCalls == 2       \* provider calls in one behaviour (a run starts only while
                    \* the budget leaves room for its fallback call)
MaxScheduled == 1   \* background tasks added and not yet started
MaxDays == 1        \* cache lifetimes the clock runs through

pitaya == <<"p", "i", "t", "a", "y", "a">>
Acai_Polpa == <<"A", "c", "a", "i", "-", "P", "o", "l", "p", "a">>
Zoi_Approved == <<"Z", "o", "i", " ", "A", "p", "p", "r", "o", "v", "e", "d">>

\* the product_slug path parameters of the requests
ProductSlugs == {Acai_Polpa, frango, pitaya}

\* the instants at which requests arrive and provider calls return
Instants == {d * CacheTtl : d \in 0..MaxDays}

\* JSON objects the provider may answer with
PayloadUnsafe ==
    [ncm_code |-> Str(<<"0810.90.00">>), status |-> Str(Zoi_Approved), risk_score |-> Num(90),
     max_residue_limits |-> Dict(
        (Carbendazim :> Dict(Entry("0.5 mg/kg", CONFORME, "Reg. (CE) 396/2005", "Dentro do limite.")))
        @@ (glyphosate :> Dict(Entry("0.1 mg/kg", CONFORME, "Reg. (CE) 396/2005", "MRL frutas."))))]
PayloadNullStatus ==
    [ncm_code |-> Str(<<"0810.90.00">>), status |-> Null, risk_score |-> Num(40),
     max_residue_limits |-> Dict(Thia_Cloprid :> Str(<<"0.2 mg/kg">>))]
PayloadOtherBanned ==
    [ncm_code |-> Str(<<"0207.14.00">>), status |-> Str(APPROVED), risk_score |-> Num(95),
     max_residue_limits |-> Dict(
        chloramphenicol :> Dict(Entry("0.0003 mg/kg", BANIDO, "Reg. (CE) 1950/2006", "Tolerancia zero.")))]
PayloadNoCode ==
    [status |-> Str(BLOCKED), risk_score |-> Num(10)]
PayloadUnlisted ==
    [ncm_code |-> Str(<<"0810.90.00">>), status |-> Str(<<"PENDING REVIEW">>),
     risk_score |-> Num(60),
     max_residue_limits |-> Dict(
        glyphosate :> Dict(Entry("0.1 mg/kg", CONFORME, "Reg. (CE) 396/2005", "MRL frutas.")))]
Payloads == {PayloadUnsafe, PayloadNullStatus, PayloadOtherBanned, PayloadUnlisted}

\* a message the provider returns: stop_reason, whether the content holds a
\* tool_use block, and the text of its text blocks
Message(sr, tu, tx) == [exc |-> "none", stop_reason |-> sr, tool_use |-> tu, text |-> tx]

\* the text of one provider response (its text blocks, concatenated)
Texts == {<<PROSE>>, <<OBJ(PayloadNoCode)>>} \cup {<<OBJ(p)>> : p \in Payloads}

\* a provider response: the message returned, or the exception raised by the call
Responses ==
    {Message("end_turn", FALSE, tx) : tx \in Texts}
    \cup {Message("tool_use", TRUE, << >>)}
    \cup {[exc |-> e, stop_reason |-> "none", tool_use |-> FALSE, text |-> << >>] :
        e \in {"APITimeoutError", "APIError", "Exception"}}

\* the fallback call offers no tools: its message ends the turn
Answers(run, resp) ==
    run.phase = "fallback" => resp.exc # "none" \/ resp.stop_reason = "end_turn"

RemoveAt(q, i) == SubSeq(q, 1, i - 1) \o SubSeq(q, i + 1, Len(q))

Init ==
    /\ ANTHROPIC_API_KEY \in {"", "sk-ant"}
    /\ PRODUCT_CACHE = EmptyDict
    /\ CLAUDE_RESEARCH_TASKS = EmptyDict
    /\ REFERENCE_DATA = REFERENCE_DATA_AT_START
    /\ now = 0
    /\ runs = << >>
    /\ scheduled = << >>
    /\ calls = 0
    /\ result = None
    /\ vin = None
    /\ vout = None

\* what a finished get_product_data leaves behind
Effect(e) ==
    /\ Len(e.sched) <= MaxScheduled
    /\ PRODUCT_CACHE' = e.cache
    /\ REFERENCE_DATA' = e.ref
    /\ scheduled' = e.sched
    /\ result' = e.result

\* GET /api/products/{product_slug} (and /export-pdf): get_product_data(product_slug,
\* background_tasks=background_tasks)
GetProduct(product_slug) ==
    /\ Effect(get_product_data(PRODUCT_CACHE, REFERENCE_DATA, scheduled, product_slug, TRUE, now))
    /\ UNCHANGED <<ANTHROPIC_API_KEY, CLAUDE_RESEARCH_TASKS, now, runs, calls, vin, vout>>

\* GET /api/products/{product_slug}/refresh with a credential: get_product_data(
\* product_slug, force_refresh=True) up to its first provider call
RefreshStart(product_slug) ==
    /\ Configured
    /\ Len(runs) < MaxRuns
    /\ calls + 2 <= MaxCalls
    /\ CLAUDE_RESEARCH_TASKS' = StartTask(CLAUDE_RESEARCH_TASKS, normalize_slug(product_slug), now)
    /\ runs' = Append(runs, NewRun("forced", product_slug, normalize_slug(product_slug),
                                   ProductName(product_slug)))
    /\ calls' = calls + 1
    /\ result' = None
    /\ UNCHANGED <<ANTHROPIC_API_KEY, PRODUCT_CACHE, REFERENCE_DATA, now, scheduled, vin, vout>>

\* GET /api/products/{product_slug}/refresh without a credential
RefreshUnconfigured(product_slug) ==
    /\ ~Configured
    /\ Effect(Fallback(PRODUCT_CACHE, REFERENCE_DATA, scheduled, product_slug, TRUE, FALSE,
                       now, normalize_slug(product_slug)))
    /\ UNCHANGED <<ANTHROPIC_API_KEY, CLAUDE_RESEARCH_TASKS, now, runs, calls, vin, vout>>

\* a background task starts: background_claude_research up to its first provider call
BackgroundStart(j) ==
    /\ j \in DOMAIN scheduled
    /\ Configured
    /\ Len(runs) < MaxRuns
    /\ calls + 2 <= MaxCalls
    /\ scheduled' = RemoveAt(scheduled, j)
    /\ CLAUDE_RESEARCH_TASKS' = StartTask(CLAUDE_RESEARCH_TASKS, scheduled[j].slug, now)
    /\ runs' = Append(runs, NewRun("background", scheduled[j].slug, scheduled[j].slug,
                                   scheduled[j].name))
    /\ calls' = calls + 1
    /\ result' = None
    /\ UNCHANGED <<ANTHROPIC_API_KEY, PRODUCT_CACHE, REFERENCE_DATA, now, vin, vout>>

\* the provider answers the call a run is suspended at and the run goes on to its
\* next call (tool loop or fallback)
Continued(i, step) ==
    /\ ~step.done
    /\ runs' = [runs EXCEPT ![i] = step.run]

ProviderContinue(i, resp) ==
    /\ i \in DOMAIN runs
    /\ Answers(runs[i], resp)
    /\ calls < MaxCalls
    /\ Continued(i, ResearchStep(runs[i], resp, now))
    /\ calls' = calls + 1
    /\ result' = None
    /\ UNCHANGED <<ANTHROPIC_API_KEY, PRODUCT_CACHE, CLAUDE_RESEARCH_TASKS, REFERENCE_DATA,
                   now, scheduled, vin, vout>>

\* BackgroundDone with a check before line 478: the record is written only while the
\* key has no entry, so that the write of the run that ends second is rejected
BackgroundDoneIfAbsent(i, step) ==
    /\ step.done
    /\ CLAUDE_RESEARCH_TASKS' = SetTaskStatus(CLAUDE_RESEARCH_TASKS, runs[i].slug, step.status)
    /\ PRODUCT_CACHE' = IF Truthy(step.value) /\ runs[i].slug \notin DOMAIN PRODUCT_CACHE
                        THEN set_cached(PRODUCT_CACHE, runs[i].slug, step.value, now)
                        ELSE PRODUCT_CACHE

\* lines 476-481: background_claude_research once research_product_via_claude returned
\* BackgroundDone without the set_cached of line 478
BackgroundDoneUncached(i, step) ==
    /\ step.done
    /\ CLAUDE_RESEARCH_TASKS' = SetTaskStatus(CLAUDE_RESEARCH_TASKS, runs[i].slug, step.status)
    /\ PRODUCT_CACHE' = PRODUCT_CACHE

\* BackgroundDone that drops the cache entry of the key when the research failed
BackgroundDoneInvalidating(i, step) ==
    /\ step.done
    /\ CLAUDE_RESEARCH_TASKS' = SetTaskStatus(CLAUDE_RESEARCH_TASKS, runs[i].slug, step.status)
    /\ PRODUCT_CACHE' = IF Truthy(step.value)
                        THEN set_cached(PRODUCT_CACHE, runs[i].slug, step.value, now)
                        ELSE Del(PRODUCT_CACHE, runs[i].slug)

BackgroundDone(i, step) ==
    /\ step.done
    /\ CLAUDE_RESEARCH_TASKS' = SetTaskStatus(CLAUDE_RESEARCH_TASKS, runs[i].slug, step.status)
    /\ PRODUCT_CACHE' = IF Truthy(step.value)
                        THEN set_cached(PRODUCT_CACHE, runs[i].slug, step.value, now)
                        ELSE PRODUCT_CACHE

\* the provider answers the last call of a background run
BackgroundFinish(i, resp) ==
    /\ i \in DOMAIN runs
    /\ runs[i].origin = "background"
    /\ Answers(runs[i], resp)
    /\ BackgroundDone(i, ResearchStep(runs[i], resp, now))
    /\ runs' = RemoveAt(runs, i)
    /\ result' = None
    /\ UNCHANGED <<ANTHROPIC_API_KEY, REFERENCE_DATA, now, scheduled, calls, vin, vout>>

\* RefreshDone without the set_cached of line 1591: the researched record is returned
\* and not stored
RefreshDoneUncached(i, step) ==
    /\ step.done
    /\ CLAUDE_RESEARCH_TASKS' = SetTaskStatus(CLAUDE_RESEARCH_TASKS, runs[i].slug, step.status)
    /\ Effect(IF Truthy(step.value)
              THEN [cache |-> PRODUCT_CACHE,
                    ref |-> REFERENCE_DATA,
                    sched |-> scheduled,
                    result |-> Returned(runs[i].key, TRUE, Stamped(step.value, now), 1592)]
              ELSE Fallback(PRODUCT_CACHE, REFERENCE_DATA, scheduled, runs[i].key,
                            TRUE, FALSE, now, runs[i].slug))

\* lines 1589-1624: get_product_data(force_refresh=True) once research_product_via_claude
\* returned
\* RefreshDone that serves a fresh cache entry when the research failed
RefreshDoneServingCache(i, step) ==
    /\ step.done
    /\ CLAUDE_RESEARCH_TASKS' = SetTaskStatus(CLAUDE_RESEARCH_TASKS, runs[i].slug, step.status)
    /\ Effect(IF Truthy(step.value)
              THEN [cache |-> set_cached(PRODUCT_CACHE, runs[i].slug, step.value, now),
                    ref |-> REFERENCE_DATA,
                    sched |-> scheduled,
                    result |-> Returned(runs[i].key, TRUE, Stamped(step.value, now), 1592)]
              ELSE IF CacheHit(PRODUCT_CACHE, runs[i].slug, now)
              THEN ServeCached(PRODUCT_CACHE, REFERENCE_DATA, scheduled, runs[i].key,
                               runs[i].slug, PRODUCT_CACHE[runs[i].slug])
              ELSE Fallback(PRODUCT_CACHE, REFERENCE_DATA, scheduled, runs[i].key,
                            TRUE, FALSE, now, runs[i].slug))

RefreshDone(i, step) ==
    /\ step.done
    /\ CLAUDE_RESEARCH_TASKS' = SetTaskStatus(CLAUDE_RESEARCH_TASKS, runs[i].slug, step.status)
    /\ Effect(IF Truthy(step.value)
              THEN [cache |-> set_cached(PRODUCT_CACHE, runs[i].slug, step.value, now),
                    ref |-> REFERENCE_DATA,
                    sched |-> scheduled,
                    result |-> Returned(runs[i].key, TRUE, Stamped(step.value, now), 1592)]
              ELSE Fallback(PRODUCT_CACHE, REFERENCE_DATA, scheduled, runs[i].key,
                            TRUE, FALSE, now, runs[i].slug))

\* the provider answers the last call of a forced refresh
RefreshFinish(i, resp) ==
    /\ i \in DOMAIN runs
    /\ runs[i].origin = "forced"
    /\ Answers(runs[i], resp)
    /\ RefreshDone(i, ResearchStep(runs[i], resp, now))
    /\ runs' = RemoveAt(runs, i)
    /\ UNCHANGED <<ANTHROPIC_API_KEY, now, calls, vin, vout>>

\* GET /api/research-status/{product_slug}: its get_cached drops an expired entry
ResearchStatus(product_slug) ==
    /\ PRODUCT_CACHE' = get_cached_store(PRODUCT_CACHE, normalize_slug(product_slug), now)
    /\ result' = None
    /\ UNCHANGED <<ANTHROPIC_API_KEY, CLAUDE_RESEARCH_TASKS, REFERENCE_DATA, now, runs,
                   scheduled, calls, vin, vout>>

\* time passes
Advance(t) ==
    /\ t > now
    /\ now' = t
    /\ result' = None
    /\ UNCHANGED <<ANTHROPIC_API_KEY, PRODUCT_CACHE, CLAUDE_RESEARCH_TASKS, REFERENCE_DATA,
                   runs, scheduled, calls, vin, vout>>

Next ==
    \/ \E product_slug \in ProductSlugs : GetProduct(product_slug)
    \/ \E product_slug \in ProductSlugs : RefreshStart(product_slug)
    \/ \E product_slug \in ProductSlugs : RefreshUnconfigured(product_slug)
    \/ \E j \in 1..MaxScheduled : BackgroundStart(j)
    \/ \E i \in 1..MaxRuns, resp \in Responses : ProviderContinue(i, resp)
    \/ \E i \in 1..MaxRuns, resp \in Responses : BackgroundFinish(i, resp)
    \/ \E i \in 1..MaxRuns, resp \in Responses : RefreshFinish(i, resp)
    \/ \E product_slug \in ProductSlugs : ResearchStatus(product_slug)
    \/ \E t \in Instants : Advance(t)

Spec == Init /\ [][Next]_vars

\* The process a day and a second after get_product_data("acai") cached the reference
\* record and, with a credential, a background research of pitaya completed.
InitStale ==
    /\ ANTHROPIC_API_KEY \in {"", "sk-ant"}
    /\ PRODUCT_CACHE =
           IF Configured
           THEN set_cached(KnowledgeBase(EmptyDict, REFERENCE_DATA_AT_START, << >>, acai, FALSE,
                                         0 - (CacheTtl + 1), acai).cache,
                           pitaya, Conclude(PayloadUnsafe, 0 - (CacheTtl + 1)).value,
                           0 - (CacheTtl + 1))
           ELSE KnowledgeBase(EmptyDict, REFERENCE_DATA_AT_START, << >>, acai, FALSE,
                              0 - (CacheTtl + 1), acai).cache
    /\ CLAUDE_RESEARCH_TASKS =
           IF Configured
           THEN SetTaskStatus(StartTask(EmptyDict, pitaya, 0 - (CacheTtl + 1)), pitaya, "completed")
           ELSE EmptyDict
    /\ REFERENCE_DATA = KnowledgeBase(EmptyDict, REFERENCE_DATA_AT_START, << >>, acai, FALSE,
                                      0 - (CacheTtl + 1), acai).ref
    /\ now = 0
    /\ runs = << >>
    /\ scheduled = << >>
    /\ calls = 0
    /\ result = None
    /\ vin = None
    /\ vout = None

SpecStale == InitStale /\ [][Next]_vars

\* The process with a credential and two researches of pitaya in flight, each suspended
\* at its first provider call: runs[1] started first, and each was started either by the
\* background task of GET /api/products/pitaya or by GET /api/products/pitaya/refresh.
InitRace ==
    /\ ANTHROPIC_API_KEY = "sk-ant"
    /\ PRODUCT_CACHE = EmptyDict
    /\ CLAUDE_RESEARCH_TASKS = StartTask(StartTask(EmptyDict, pitaya, 0), pitaya, 0)
    /\ REFERENCE_DATA = REFERENCE_DATA_AT_START
    /\ now = 0
    /\ runs \in {<<NewRun(first, pitaya, pitaya, ProductName(pitaya)),
                    NewRun(second, pitaya, pitaya, ProductName(pitaya))>> :
                     first \in {"background", "forced"}, second \in {"background", "forced"}}
    /\ scheduled = << >>
    /\ calls = 2
    /\ result = None
    /\ vin = None
    /\ vout = None

\* the provider answers the two runs in either order, while time passes and the
\* product is requested
NextRace ==
    \/ \E i \in DOMAIN runs, resp \in Responses : BackgroundFinish(i, resp)
    \/ \E i \in DOMAIN runs, resp \in Responses : RefreshFinish(i, resp)
    \/ GetProduct(pitaya)
    \/ \E t \in Instants : Advance(t)

SpecRace == InitRace /\ [][NextRace]_vars

\* two runs in flight for different keys: a background or forced run for pitaya and a
\* forced run for Acai-Polpa (key acai)
InitKeys ==
    /\ ANTHROPIC_API_KEY = "sk-ant"
    /\ PRODUCT_CACHE = EmptyDict
    /\ CLAUDE_RESEARCH_TASKS = StartTask(StartTask(EmptyDict, pitaya, 0), acai, 0)
    /\ REFERENCE_DATA = REFERENCE_DATA_AT_START
    /\ now = 0
    /\ runs \in {<<NewRun(first, pitaya, pitaya, ProductName(pitaya)),
                    NewRun("forced", Acai_Polpa, acai, ProductName(Acai_Polpa))>> :
                     first \in {"background", "forced"}}
    /\ scheduled = << >>
    /\ calls = 2
    /\ result = None
    /\ vin = None
    /\ vout = None

\* the provider answers the two runs in either order, while time passes, products
\* are requested and the research status is polled
NextKeys ==
    \/ \E i \in DOMAIN runs, resp \in Responses : BackgroundFinish(i, resp)
    \/ \E i \in DOMAIN runs, resp \in Responses : RefreshFinish(i, resp)
    \/ \E product_slug \in ProductSlugs : GetProduct(product_slug)
    \/ \E product_slug \in ProductSlugs : ResearchStatus(product_slug)
    \/ \E t \in Instants : Advance(t)

SpecKeys == InitKeys /\ [][NextKeys]_vars

\* a JSON object of the provider that brings a data_source and a last_updated of its own
PayloadForged ==
    [ncm_code |-> Str(<<"0000.00.00">>), status |-> Str(RESEARCHING), risk_score |-> Num(0),
     max_residue_limits |-> Dict(EmptyDict),
     data_source |-> Str(<<"template_pending_research">>),
     last_updated |-> Str(<<"2031-01-01">>)]

AgingResponses == Responses \cup {Message("end_turn", FALSE, <<OBJ(PayloadForged)>>)}

\* spellings of two products in requests: an alias with upper case and a hyphen and
\* the key it stands for, and a name in upper case and in lower case
PITAYA == <<"P", "I", "T", "A", "Y", "A">>
AliasSlugs == {Acai_Polpa, acai, PITAYA, pitaya}

\* the products are requested, refreshed and polled under either spelling
NextAliases ==
    \/ \E product_slug \in AliasSlugs : GetProduct(product_slug)
    \/ \E product_slug \in {PITAYA, pitaya} : RefreshStart(product_slug)
    \/ \E product_slug \in AliasSlugs : RefreshUnconfigured(product_slug)
    \/ \E resp \in Responses : RefreshFinish(1, resp)
    \/ \E product_slug \in AliasSlugs : ResearchStatus(product_slug)
    \/ \E t \in Instants : Advance(t)

SpecAliases == Init /\ [][NextAliases]_vars

\* half a cache lifetime passes
Pass ==
    /\ 2 * (now + CacheTtl \div 2) <= (2 * MaxDays + 1) * CacheTtl
    /\ now' = now + CacheTtl \div 2
    /\ result' = None
    /\ UNCHANGED <<ANTHROPIC_API_KEY, PRODUCT_CACHE, CLAUDE_RESEARCH_TASKS, REFERENCE_DATA,
                   runs, scheduled, calls, vin, vout>>

\* products are requested, polled and refreshed while their cache entries age
NextAging ==
    \/ \E product_slug \in {Acai_Polpa, pitaya} : GetProduct(product_slug)
    \/ \E product_slug \in {Acai_Polpa, pitaya} : ResearchStatus(product_slug)
    \/ RefreshStart(pitaya)
    \/ \E resp \in AgingResponses : RefreshFinish(1, resp)
    \/ Pass

SpecAging == Init /\ [][NextAging]_vars

\* with the backend configured, two forced refreshes of one product in flight, for a
\* product without a reference record or with one; without it, nothing in flight
InitRefresh ==
    /\ ANTHROPIC_API_KEY \in {"", "sk-ant"}
    /\ PRODUCT_CACHE = EmptyDict
    /\ \E k \in {pitaya, Acai_Polpa} :
           IF Configured
           THEN /\ CLAUDE_RESEARCH_TASKS =
                       StartTask(StartTask(EmptyDict, normalize_slug(k), 0), normalize_slug(k), 0)
                /\ runs = <<NewRun("forced", k, normalize_slug(k), ProductName(k)),
                            NewRun("forced", k, normalize_slug(k), ProductName(k))>>
                /\ calls = 2
           ELSE /\ CLAUDE_RESEARCH_TASKS = EmptyDict
                /\ runs = << >>
                /\ calls = 0
    /\ REFERENCE_DATA = REFERENCE_DATA_AT_START
    /\ now = 0
    /\ scheduled = << >>
    /\ result = None
    /\ vin = None
    /\ vout = None

\* the provider answers the two refreshes, or products are refreshed without a
\* backend, while time passes and the products are requested
NextRefresh ==
    \/ \E i \in DOMAIN runs, resp \in Responses : RefreshFinish(i, resp)
    \/ \E product_slug \in {pitaya, Acai_Polpa} : RefreshUnconfigured(product_slug)
    \/ \E product_slug \in {pitaya, Acai_Polpa} : GetProduct(product_slug)
    \/ \E t \in Instants : Advance(t)

SpecRefresh == InitRefresh /\ [][NextRefresh]_vars

-----------------------------------------------------------------------------
(* One research on its own: a forced refresh of pitaya through all its      *)
(* provider calls                                                           *)

MaxLoopCalls == 10   \* provider calls of the one run

\* the responses of the provider: a message that ends the turn, asks for a tool with
\* or without a tool_use block, or stops at max_tokens, each with no text, with prose
\* or with a record; or a timeout
LoopResponses ==
    {Message(sr[1], sr[2], tx) :
        sr \in {<<"end_turn", FALSE>>, <<"tool_use", TRUE>>, <<"tool_use", FALSE>>,
                <<"max_tokens", FALSE>>},
        tx \in {<< >>, <<PROSE>>, <<OBJ(PayloadUnsafe)>>,
                <<FENCE, TAG, OBJ(PayloadNoCode), FENCE>>}}
    \cup {[exc |-> "APITimeoutError", stop_reason |-> "none", tool_use |-> FALSE, text |-> << >>]}

InitLoop == Init /\ Configured

\* the provider answers a call of the run and the run makes its next call
LoopContinue(i, resp) ==
    /\ i \in DOMAIN runs
    /\ Answers(runs[i], resp)
    /\ calls < MaxLoopCalls
    /\ Continued(i, ResearchStep(runs[i], resp, now))
    /\ calls' = calls + 1
    /\ result' = None
    /\ UNCHANGED <<ANTHROPIC_API_KEY, PRODUCT_CACHE, CLAUDE_RESEARCH_TASKS, REFERENCE_DATA,
                   now, scheduled, vin, vout>>

NextLoop ==
    \/ RefreshStart(pitaya)
    \/ \E resp \in LoopResponses : LoopContinue(1, resp)
    \/ \E resp \in LoopResponses : RefreshFinish(1, resp)

SpecLoop == InitLoop /\ [][NextLoop]_vars

\* the seconds between two readings of the clock while a provider call is pending
WaitStep == 45

\* the responses of the provider to a call that it answers in time, and the
\* exception the client raises when the timeout of line 346 has run out
TimelyResponses ==
    {Message(sr[1], sr[2], tx) :
        sr \in {<<"end_turn", FALSE>>, <<"tool_use", TRUE>>},
        tx \in {<< >>, <<OBJ(PayloadUnsafe)>>}}
TimeoutResponse ==
    [exc |-> "APITimeoutError", stop_reason |-> "none", tool_use |-> FALSE, text |-> << >>]

\* lines 343-346: the client is built with timeout=CLAUDE_RESEARCH_TIMEOUT, which the
\* client applies to each messages.create on its own; vin holds the instant at which
\* the pending call was sent
TimedOut == now - vin.sent >= CLAUDE_RESEARCH_TIMEOUT

\* get_product_data(pitaya, True) starts and sends the first call of the loop
TimedStart ==
    /\ Configured
    /\ Len(runs) < MaxRuns
    /\ calls + 2 <= MaxCalls
    /\ CLAUDE_RESEARCH_TASKS' = StartTask(CLAUDE_RESEARCH_TASKS, normalize_slug(pitaya), now)
    /\ runs' = Append(runs, NewRun("forced", pitaya, normalize_slug(pitaya), ProductName(pitaya)))
    /\ calls' = calls + 1
    /\ result' = None
    /\ vin' = [sent |-> now]
    /\ UNCHANGED <<ANTHROPIC_API_KEY, PRODUCT_CACHE, REFERENCE_DATA, now, scheduled, vout>>

\* the pending call stays unanswered for another WaitStep seconds
TimedWait ==
    /\ runs # << >>
    /\ ~TimedOut
    /\ now' = now + WaitStep
    /\ UNCHANGED <<ANTHROPIC_API_KEY, PRODUCT_CACHE, CLAUDE_RESEARCH_TASKS, REFERENCE_DATA,
                   runs, scheduled, calls, result, vin, vout>>

\* the provider answers the pending call in time and the run sends its next call
TimedContinue(resp) ==
    /\ runs # << >>
    /\ Answers(runs[1], resp)
    /\ ~TimedOut
    /\ calls < MaxLoopCalls
    /\ Continued(1, ResearchStep(runs[1], resp, now))
    /\ calls' = calls + 1
    /\ result' = None
    /\ vin' = [sent |-> now]
    /\ UNCHANGED <<ANTHROPIC_API_KEY, PRODUCT_CACHE, CLAUDE_RESEARCH_TASKS, REFERENCE_DATA,
                   now, scheduled, vout>>

\* the run ends on a response given in time, or on the timeout of the pending call
\* once it has run out, and get_product_data returns
TimedFinish(resp) ==
    /\ runs # << >>
    /\ Answers(runs[1], resp)
    /\ (resp = TimeoutResponse) = TimedOut
    /\ RefreshDone(1, ResearchStep(runs[1], resp, now))
    /\ runs' = RemoveAt(runs, 1)
    /\ vin' = None
    /\ UNCHANGED <<ANTHROPIC_API_KEY, now, calls, vout>>

InitTimed == Init /\ Configured

NextTimed ==
    \/ TimedStart
    \/ TimedWait
    \/ \E resp \in TimelyResponses : TimedContinue(resp)
    \/ \E resp \in TimelyResponses \cup {TimeoutResponse} : TimedFinish(resp)

SpecTimed == InitTimed /\ [][NextTimed]_vars

-----------------------------------------------------------------------------
(* The validator on its own: apply_regulatory_truth called on one record    *)

\* a list of fifty substances as a provider may return it: carbendazim marked
\* CONFORME, twenty substances marked BANIDO and twenty-nine marked CONFORME
SubstanceNo(i) ==
    <<"s", "u", "b", "s", "t", "a", "n", "c", "e", "_">>
    \o <<(<<"0", "1", "2", "3", "4", "5", "6", "7", "8", "9">>)[(i \div 10) + 1],
         (<<"0", "1", "2", "3", "4", "5", "6", "7", "8", "9">>)[(i % 10) + 1]>>
ResidueList ==
    (carbendazim :> Dict(Entry("0.5 mg/kg", CONFORME, "Reg. (CE) 396/2005", "MRL frutas.")))
    @@ [k \in {SubstanceNo(i) : i \in 1..49} |->
           IF k \in {SubstanceNo(i) : i \in 1..20}
           THEN Dict(Entry("0.01 mg/kg", BANIDO, "Reg. (CE) 396/2005", "Banido na UE."))
           ELSE Dict(Entry("0.1 mg/kg", CONFORME, "Reg. (CE) 396/2005", "MRL frutas."))]

\* the status, risk_score and max_residue_limits fields of the records handed to the
\* validator: absent, well typed, or of another JSON type
StatusFields ==
    {EmptyDict, [status |-> Str(ZOI_APPROVED)], [status |-> Str(Zoi_Approved)],
     [status |-> Str(REQUIRES_ATTENTION)], [status |-> Str(BLOCKED)], [status |-> Null]}
RiskFields ==
    {EmptyDict, [risk_score |-> Num(90)], [risk_score |-> Num(80)], [risk_score |-> Num(79)],
     [risk_score |-> Num(40)], [risk_score |-> Null]}
LimitFields ==
    {EmptyDict,
     [max_residue_limits |-> Dict(EmptyDict)],
     [max_residue_limits |-> List(<< <<"carbendazim">> >>)],
     [max_residue_limits |-> PayloadUnsafe["max_residue_limits"]],
     [max_residue_limits |-> PayloadNullStatus["max_residue_limits"]],
     [max_residue_limits |-> PayloadOtherBanned["max_residue_limits"]],
     [max_residue_limits |-> RefAcai["max_residue_limits"]],
     [max_residue_limits |-> Dict(
        (imidacloprid :> Dict(Entry("0.5 mg/kg", CONFORME, "Reg. (CE) 396/2005", "MRL frutas.")
                              @@ [source |-> Str(<<"EFSA">>)]))
        @@ (glyphosate :> Str(<<"0.1 mg/kg">>)))],
     [max_residue_limits |-> Dict(ResidueList)]}
ValidatorInputs ==
    {s @@ r @@ m @@ [ncm_code |-> Str(<<"0810.90.00">>)] :
        s \in StatusFields, r \in RiskFields, m \in LimitFields}

InitValidator ==
    /\ ANTHROPIC_API_KEY = ""
    /\ PRODUCT_CACHE = EmptyDict
    /\ CLAUDE_RESEARCH_TASKS = EmptyDict
    /\ REFERENCE_DATA = REFERENCE_DATA_AT_START
    /\ now = 0
    /\ runs = << >>
    /\ scheduled = << >>
    /\ calls = 0
    /\ result = None
    /\ vin \in ValidatorInputs
    /\ vout = None

\* the call apply_regulatory_truth(vin)
Validate ==
    /\ vout = None
    /\ vout' = apply_regulatory_truth(vin)
    /\ UNCHANGED <<ANTHROPIC_API_KEY, PRODUCT_CACHE, CLAUDE_RESEARCH_TASKS, REFERENCE_DATA,
                   now, runs, scheduled, calls, result, vin>>

NextValidator == Validate

SpecValidator == InitValidator /\ [][NextValidator]_vars

\* validations of one record in a row, as get_product_data validates a cached record
\* on each read
MaxApplied == 3

\* lines 163-173: whether the scan writes into the mapping banned_truth when the entry
\* of substance_key matches it. It never does: line 171 builds a new mapping from the
\* entry and banned_truth, line 173 binds mrl[substance_key] to banned_truth itself.
EntryWrittenInPlace(substance_key, substance_data) == substance_data.t = "dict"

EntryWritten(substance_key, substance_data) == FALSE

\* lines 159-176: EU_BANNED_SUBSTANCES after the scan of mrl0
AuthorityAfter(table, mrl0) ==
    [b \in DOMAIN table |->
        LET writers == {k \in DOMAIN mrl0 :
                           IF MatchOf(k) = 0 THEN FALSE
                           ELSE EU_BANNED_KEYS[MatchOf(k)] = b /\ EntryWritten(k, mrl0[k])}
        IN IF writers = {} THEN table[b]
           ELSE Merge(table[b], mrl0[CHOOSE k \in writers : TRUE].v)]

\* lines 171 and 173: the keys of mrl0 whose entry is, after the scan, the very mapping
\* held by EU_BANNED_SUBSTANCES: those bound by line 173; line 171 binds a new mapping
AliasesAfter(aliases, mrl0) ==
    {k \in DOMAIN mrl0 :
        IF MatchOf(k) = 0 THEN k \in aliases ELSE mrl0[k].t # "dict"}

\* apply_regulatory_truth on a record and on what it returned, with the authority
\* table and the entries of the record that alias it
InitRevalidate ==
    /\ ANTHROPIC_API_KEY = ""
    /\ PRODUCT_CACHE = EmptyDict
    /\ CLAUDE_RESEARCH_TASKS = EmptyDict
    /\ REFERENCE_DATA = REFERENCE_DATA_AT_START
    /\ now = 0
    /\ runs = << >>
    /\ scheduled = << >>
    /\ calls = 0
    /\ result = None
    /\ vin \in ValidatorInputs
    /\ vout = [data |-> Ok(vin), table |-> EU_BANNED_SUBSTANCES, aliases |-> {}, applied |-> 0]

\* the call apply_regulatory_truth(data) on the record as the last call left it
Revalidate ==
    /\ vout.data.ok
    /\ vout.applied < MaxApplied
    /\ LET mrlv == Get(vout.data.val, "max_residue_limits", Dict(EmptyDict))
       IN vout' = [data |-> apply_regulatory_truth(vout.data.val),
                   table |-> IF mrlv.t = "dict" THEN AuthorityAfter(vout.table, mrlv.v)
                             ELSE vout.table,
                   aliases |-> IF mrlv.t = "dict" THEN AliasesAfter(vout.aliases, mrlv.v)
                               ELSE vout.aliases,
                   applied |-> vout.applied + 1]
    /\ UNCHANGED <<ANTHROPIC_API_KEY, PRODUCT_CACHE, CLAUDE_RESEARCH_TASKS, REFERENCE_DATA,
                   now, runs, scheduled, calls, result, vin>>

NextRevalidate == Revalidate

SpecRevalidate == InitRevalidate /\ [][NextRevalidate]_vars

-----------------------------------------------------------------------------
(* The functions on their own: one call of get_cached on a stored entry     *)

\* the entries PRODUCT_CACHE may hold at the instant 0: a reference record or a
\* researched one as set_cached stored it 0, 1, ttl - 1, ttl, ttl + 1 or 2 ttl seconds
\* ago, or a record whose last_updated is missing, not a string or not a timestamp
StoredEntries ==
    {Stamped(r, 0 - age) :
        r \in {KnowledgeCopy(RefFrangoCongelado, 0), Enrich(PayloadOtherBanned, 0)},
        age \in {0, 1, CacheTtl - 1, CacheTtl, CacheTtl + 1, 2 * CacheTtl}}
    \cup {RefFrangoCongelado,
          Put(RefFrangoCongelado, "last_updated", Null),
          Put(RefFrangoCongelado, "last_updated", Num(1700000000)),
          Put(RefFrangoCongelado, "last_updated", Str(<<"ontem">>)),
          Put(RefFrangoCongelado, "last_updated", Str(<< >>))}

\* free text a provider may answer with: a bare record, with or without ncm_code and
\* white space; a record in a fenced block, tagged json or not, alone or after another
\* block that holds a record, prose or a JSON value that is no mapping; a record after
\* prose, alone or followed by more text; and text without a record
FreeTexts ==
    UNION {{<<OBJ(p)>>,
            <<WS, OBJ(p), WS>>,
            <<PROSE, FENCE, TAG, WS, OBJ(p), WS, FENCE, PROSE>>,
            <<FENCE, OBJ(p), FENCE>>,
            <<FENCE, WS, OBJ(p), FENCE, PROSE, FENCE, TAG, OBJ(q), FENCE>>,
            <<FENCE, PROSE, FENCE, PROSE, FENCE, TAG, OBJ(p), FENCE>>,
            <<FENCE, TAG, VAL, FENCE, PROSE, FENCE, TAG, OBJ(p), FENCE, WS>>,
            <<FENCE, PROSE, FENCE, PROSE, OBJ(p), WS>>,
            <<FENCE, TAG, VAL, FENCE, OBJ(p)>>,
            <<PROSE, OBJ(p)>>,
            <<PROSE, OBJ(p), PROSE>>,
            <<PROSE, OBJ(p), PROSE, OBJ(q)>>} :
        p \in {PayloadUnsafe, PayloadNoCode}, q \in {PayloadOtherBanned, PayloadNoCode}}
    \cup {<< >>, <<WS>>, <<PROSE>>, <<VAL>>, <<FENCE, PROSE, FENCE>>, <<FENCE, PROSE>>}

\* the calls: get_cached(slug) with the PRODUCT_CACHE it finds; normalize_slug(slug) on
\* every alias, every alias target and two other names, as they are, in upper case with
\* hyphens, capitalized with spaces, and between white space; and
\* research_product_via_claude(slug, name) without and with a credential; and
\* _parse_compliance_json on the text of the content blocks of a response: one block
\* with a fenced record, two such blocks around a tool_use block, blocks without text,
\* and prose followed by a bare record; and _parse_compliance_json on free text
Calls ==
    {[fn |-> "get_cached", slug |-> slug, cache |-> cache] :
        slug \in {frango_congelado, pitaya},
        cache \in {EmptyDict} \cup {frango_congelado :> e : e \in StoredEntries}}
    \cup {[fn |-> "normalize_slug", slug |-> slug, cache |-> EmptyDict] :
        slug \in UNION {{k, Upper(Replace(k, "_", "-")), Title(Replace(k, "_", " ")),
                         <<" ", "\t">> \o k \o <<"\n">>} :
            k \in DOMAIN SLUG_ALIASES \cup {SLUG_ALIASES[a] : a \in DOMAIN SLUG_ALIASES}
                  \cup {pitaya, << >>}}}
    \cup {[fn |-> "research_product_via_claude", slug |-> slug, cache |-> EmptyDict,
           key |-> key] :
        slug \in {acai, pitaya}, key \in {"", "sk-ant"}}
    \cup {[fn |-> "_parse_compliance_json", blocks |-> blocks, cache |-> EmptyDict] :
        blocks \in
            {<<[type |-> "text", text |-> <<PROSE, FENCE, TAG, WS, OBJ(p), WS, FENCE>>]>> :
                p \in Payloads}
            \cup {<<[type |-> "text", text |-> <<PROSE, FENCE, TAG, WS, OBJ(p), WS, FENCE>>],
                    [type |-> "tool_use"],
                    [type |-> "text", text |-> <<PROSE, FENCE, WS, OBJ(q), FENCE, WS>>]>> :
                p \in Payloads, q \in Payloads}
            \cup {<<[type |-> "tool_use"], [type |-> "text", text |-> << >>]>>,
                  <<[type |-> "text", text |-> <<PROSE>>],
                    [type |-> "text", text |-> <<WS, OBJ(PayloadUnsafe), WS>>]>>}}
    \cup {[fn |-> "_parse_compliance_json(text)", text |-> text, cache |-> EmptyDict] :
        text \in FreeTexts}

InitCalls ==
    /\ vin \in Calls
    /\ ANTHROPIC_API_KEY = IF vin.fn = "research_product_via_claude" THEN vin.key ELSE ""
    /\ PRODUCT_CACHE = vin.cache
    /\ CLAUDE_RESEARCH_TASKS = EmptyDict
    /\ REFERENCE_DATA = REFERENCE_DATA_AT_START
    /\ now = 0
    /\ runs = << >>
    /\ scheduled = << >>
    /\ calls = 0
    /\ result = None
    /\ vout = None

\* the call get_cached(vin.slug): what it returns and what it leaves in PRODUCT_CACHE
CallGetCached ==
    /\ vin.fn = "get_cached"
    /\ vout = None
    /\ vout' = [value |-> get_cached(PRODUCT_CACHE, vin.slug, now)]
    /\ PRODUCT_CACHE' = get_cached_store(PRODUCT_CACHE, vin.slug, now)
    /\ UNCHANGED <<ANTHROPIC_API_KEY, CLAUDE_RESEARCH_TASKS, REFERENCE_DATA, now, runs,
                   scheduled, calls, result, vin>>

\* the call normalize_slug(vin.slug), and then the call of normalize_slug on what the
\* first call returned: [n, of, value] is the n-th call, its argument and its result
CallNormalizeSlug ==
    /\ vin.fn = "normalize_slug"
    /\ IF vout = None THEN TRUE ELSE vout.n = 1
    /\ vout' = IF vout = None
               THEN [n |-> 1, of |-> vin.slug, value |-> normalize_slug(vin.slug)]
               ELSE [n |-> 2, of |-> vout.value, value |-> normalize_slug(vout.value)]
    /\ UNCHANGED <<ANTHROPIC_API_KEY, PRODUCT_CACHE, CLAUDE_RESEARCH_TASKS, REFERENCE_DATA,
                   now, runs, scheduled, calls, result, vin>>

\* the call research_product_via_claude(vin.slug, name), up to its first await
CallResearch ==
    /\ vin.fn = "research_product_via_claude"
    /\ vout = None
    /\ LET begun == ResearchBegin(CLAUDE_RESEARCH_TASKS, runs, calls, vin.slug,
                                  ProductName(vin.slug), now)
       IN /\ vout' = [returned |-> begun.returned, value |-> begun.value,
                      warning |-> begun.warning]
          /\ CLAUDE_RESEARCH_TASKS' = begun.tasks
          /\ runs' = begun.runs
          /\ calls' = begun.calls
    /\ UNCHANGED <<ANTHROPIC_API_KEY, PRODUCT_CACHE, REFERENCE_DATA, now, scheduled,
                   result, vin>>

\* the call _parse_compliance_json(_extract_text_from_blocks(vin.blocks))
CallParse ==
    /\ vin.fn = "_parse_compliance_json"
    /\ vout = None
    /\ vout' = [value |-> _parse_compliance_json(_extract_text_from_blocks(vin.blocks))]
    /\ UNCHANGED <<ANTHROPIC_API_KEY, PRODUCT_CACHE, CLAUDE_RESEARCH_TASKS, REFERENCE_DATA,
                   now, runs, scheduled, calls, result, vin>>

\* the call _parse_compliance_json(vin.text)
CallParseText ==
    /\ vin.fn = "_parse_compliance_json(text)"
    /\ vout = None
    /\ vout' = [value |-> _parse_compliance_json(vin.text)]
    /\ UNCHANGED <<ANTHROPIC_API_KEY, PRODUCT_CACHE, CLAUDE_RESEARCH_TASKS, REFERENCE_DATA,
                   now, runs, scheduled, calls, result, vin>>

NextCalls ==
    \/ CallGetCached
    \/ CallNormalizeSlug
    \/ CallResearch
    \/ CallParse
    \/ CallParseText

SpecCalls == InitCalls /\ [][NextCalls]_vars

-----------------------------------------------------------------------------
(* Properties                                                              *)

\* the record a finished call returned, by the branch that returned it
CacheSourced(r) ==
    r.line = 1584 /\ Get(r.data, "data_source_note", Null) = Str(<<"Dados em cache">>)
ReferenceSourced(r) ==
    r.line = 1610 /\ Get(r.data, "data_source", Null) = Str(<<"reference_knowledge">>)
Placeholder(r) ==
    r.line = 1624 /\ Get(r.data, "data_source", Null) = Str(<<"template_pending_research">>)

\* C1: get_product_data(k, force_refresh=False) never raises and never returns an empty
\* or absent result: what it returns is a non-empty record that is cache-sourced,
\* reference-sourced or a placeholder.
TotalLookup ==
    (result # None /\ ~result.force) =>
        /\ result.raised = "none"
        /\ Truthy(result.data)
        /\ CacheSourced(result) \/ ReferenceSourced(result) \/ Placeholder(result)

\* a non-forced lookup was served a researched record from the cache
TotalLookupSeen ==
    /\ result # None /\ ~result.force /\ CacheSourced(result)
    /\ Get(result.data, "data_source", Null) = Str(<<"claude_ai_realtime">>)

\* a record as apply_regulatory_truth returns it: the validator returns it unchanged
IsValidated(record) == apply_regulatory_truth(record) = Ok(record)

ApprovedClass(status) == status.t = "str" /\ Contains(APPROVED, Upper(status.v))

\* the normalized substance name matches a key of EU_BANNED_SUBSTANCES (line 162)
NameMatches(substance_key) ==
    \E banned_key \in DOMAIN EU_BANNED_SUBSTANCES :
        \/ Contains(banned_key, NormalizeSubstance(substance_key))
        \/ Contains(NormalizeSubstance(substance_key), banned_key)

\* the substance entries of a record
Limits(record) ==
    IF Get(record, "max_residue_limits", Null).t = "dict"
    THEN record["max_residue_limits"].v ELSE EmptyDict

\* C3: in the record apply_regulatory_truth returns, every substance entry whose
\* normalized name matches an EU_BANNED_SUBSTANCES key has status exactly BANIDO, and if
\* an entry matches the overall status is not an approved-class value.
BannedEnforced ==
    (vout # None /\ vout.ok) =>
        /\ \A k \in DOMAIN Limits(vout.val) : NameMatches(k) => IsBanidoEntry(Limits(vout.val)[k])
        /\ (\E k \in DOMAIN Limits(vout.val) : NameMatches(k)) =>
               ~ApprovedClass(Get(vout.val, "status", Str(<< >>)))

\* the input claimed an approved status with carbendazim marked CONFORME
BannedEnforcedSeen ==
    /\ vout # None /\ vout.ok
    /\ ApprovedClass(Get(vin, "status", Null))
    /\ Carbendazim \in DOMAIN Limits(vin)
    /\ Get(Limits(vin)[Carbendazim].v, "status", Null) = Str(CONFORME)
    /\ vout.val["status"] = Str(REQUIRES_ATTENTION)

\* C4: every record get_product_data returns with an approved overall status has no
\* substance with status BANIDO in its max_residue_limits.
ApprovedHasNoBanned ==
    (result # None /\ result.raised = "none"
        /\ ApprovedClass(Get(result.data, "status", Null))) =>
        \A k \in DOMAIN Limits(result.data) : ~IsBanidoEntry(Limits(result.data)[k])

\* the step is a finished get_product_data(k, force_refresh=False)
LookedUp(k) == result' # None /\ result'.key = k /\ ~result'.force

\* the step starts no research call, schedules no background task and touches no task record
NoResearch ==
    /\ runs' = runs
    /\ calls' = calls
    /\ scheduled' = scheduled
    /\ CLAUDE_RESEARCH_TASKS' = CLAUDE_RESEARCH_TASKS

CACHE_NOTE == Str(<<"Dados em cache">>)

\* C5: a non-forced lookup that finds a fresh cache entry for the normalized key returns
\* that entry annotated as cache-sourced, starts no research call and schedules no
\* background task; a lookup right after a first lookup of the key returns the record the
\* first returned, but for the annotation.
FreshHitServed ==
    [][\A k \in ProductSlugs :
        (CacheHit(PRODUCT_CACHE, normalize_slug(k), now) /\ LookedUp(k)) =>
            /\ result'.raised = "none"
            /\ CacheSourced(result')
            /\ result'.data = Put(PRODUCT_CACHE[normalize_slug(k)], "data_source_note", CACHE_NOTE)
            /\ NoResearch
            /\ (result # None /\ result.key = k /\ ~result.force /\ result.raised = "none")
                   => result'.data = Put(result.data, "data_source_note", CACHE_NOTE)]_vars

\* a reference record was served from the cache, with no provider call made so far
FreshHitServedSeen ==
    /\ result # None /\ ~result.force /\ CacheSourced(result)
    /\ Get(result.data, "data_source", Null) = Str(<<"reference_knowledge">>)
    /\ Configured /\ calls = 0 /\ scheduled = << >>

UnknownKeySchedules ==
    [][\A k \in ProductSlugs :
        (/\ normalize_slug(k) \notin DOMAIN REFERENCE_DATA
         /\ Configured
         /\ result' # None /\ result'.key = k /\ Placeholder(result')) =>
            /\ result'.data["status"] = Str(RESEARCHING)
            /\ Len(scheduled') = Len(scheduled) + 1
            /\ scheduled'[Len(scheduled')].slug = normalize_slug(k)]_vars

\* C9: without a credential, a non-forced lookup of a key outside the reference
\* knowledge base returns a placeholder with status RESEARCHING and the not-configured
\* alert; no background task is scheduled and no task record exists for the key.
UnconfiguredPlaceholder ==
    (/\ result # None /\ ~result.force
     /\ ~Configured
     /\ normalize_slug(result.key) \notin DOMAIN REFERENCE_DATA) =>
        /\ result.raised = "none"
        /\ Placeholder(result)
        /\ result.data["status"] = Str(RESEARCHING)
        /\ \E i \in DOMAIN result.data["alerts"].v :
               result.data["alerts"].v[i] = NOT_CONFIGURED_ALERT
        /\ scheduled = << >>
        /\ normalize_slug(result.key) \notin DOMAIN CLAUDE_RESEARCH_TASKS

\* an unknown key was looked up without a credential
UnconfiguredPlaceholderSeen ==
    /\ result # None /\ ~result.force /\ result.raised = "none"
    /\ ~Configured
    /\ normalize_slug(result.key) \notin DOMAIN REFERENCE_DATA
    /\ Len(result.data["alerts"].v) = 4

\* the statuses research_product_via_claude records when it returns None
FailureStatuses == {"timeout", "api_error", "parse_error", "error"}

\* the research of the forced refresh that returned `result` failed
ResearchFailed ==
    /\ Configured
    /\ normalize_slug(result.key) \in DOMAIN CLAUDE_RESEARCH_TASKS
    /\ CLAUDE_RESEARCH_TASKS[normalize_slug(result.key)].status \in FailureStatuses

\* C10: a forced refresh whose research failed does not raise: it returns the reference
\* record if the key is in the reference knowledge base and a placeholder otherwise.
ForcedFailureFallsBack ==
    (result # None /\ result.force) =>
        /\ result.raised = "none"
        /\ ResearchFailed =>
               IF normalize_slug(result.key) \in DOMAIN REFERENCE_DATA
               THEN ReferenceSourced(result)
               ELSE Placeholder(result)

\* a forced refresh of a reference key ended in parse_error and the reference record
\* came back
ForcedFailureFallsBackSeen ==
    /\ result # None /\ result.force /\ ResearchFailed
    /\ ReferenceSourced(result)
    /\ CLAUDE_RESEARCH_TASKS[normalize_slug(result.key)].status = "parse_error"

\* the record research_product_via_claude returns on success
Researched(record) == Get(record, "data_source", Null) = Str(<<"claude_ai_realtime">>)

\* C11: a forced refresh with the backend configured runs the research to its end before
\* it returns, whatever the cache holds; when the research completed, the researched
\* record is stored under the normalized key and is the record returned, and the next
\* non-forced lookup of the key returns it from the cache.
ForcedRefreshCaches ==
    [][/\ (result' # None /\ result'.force /\ Configured) =>
            /\ normalize_slug(result'.key) \in DOMAIN CLAUDE_RESEARCH_TASKS'
            /\ CLAUDE_RESEARCH_TASKS'[normalize_slug(result'.key)].status # "running"
            /\ CLAUDE_RESEARCH_TASKS'[normalize_slug(result'.key)].status = "completed" =>
                   /\ result'.line = 1592
                   /\ Researched(result'.data)
                   /\ normalize_slug(result'.key) \in DOMAIN PRODUCT_CACHE'
                   /\ PRODUCT_CACHE'[normalize_slug(result'.key)] = result'.data
       /\ (result # None /\ result.line = 1592 /\ LookedUp(result.key)) =>
            /\ CacheSourced(result')
            /\ result'.data = Put(result.data, "data_source_note", CACHE_NOTE)]_vars

\* a forced refresh of acai returned a researched record at the instant at which an
\* earlier lookup had cached the reference record (the lookup left its corrections in
\* REFERENCE_DATA)
ForcedRefreshCachesSeen ==
    /\ result # None /\ result.force /\ result.line = 1592
    /\ result.key = Acai_Polpa /\ now = 0
    /\ REFERENCE_DATA # REFERENCE_DATA_AT_START
    /\ PRODUCT_CACHE[acai] = result.data

\* get_cached(vin.slug) returned, and the entry it was called on
GotCached == vout # None /\ vin.fn = "get_cached" /\ vin.slug \in DOMAIN vin.cache
StoredEntry == vin.cache[vin.slug]

\* the entry carries the timestamp set_cached wrote
WellStamped(entry) == Get(entry, "last_updated", Null).t = "iso"
AgeOf(entry) == now - entry["last_updated"].v

\* C12: get_cached(k) returns absent if now - storedAt > ttl and the stored entry
\* otherwise, at the ages ttl - 1, ttl and ttl + 1 among others.
FreshUpToTtl ==
    (GotCached /\ WellStamped(StoredEntry)) =>
        vout.value = IF AgeOf(StoredEntry) > CacheTtl THEN None ELSE StoredEntry

\* C12, amended: get_cached(k) returns absent if now - storedAt >= ttl and the stored
\* entry if now - storedAt < ttl: the entry at the age ttl - 1, absent at the ages ttl
\* and ttl + 1.
FreshBelowTtl ==
    (GotCached /\ WellStamped(StoredEntry)) =>
        vout.value = IF AgeOf(StoredEntry) >= CacheTtl THEN None ELSE StoredEntry

\* get_cached was called on an entry stored exactly ttl seconds before
FreshBelowTtlSeen ==
    /\ GotCached /\ WellStamped(StoredEntry)
    /\ AgeOf(StoredEntry) = CacheTtl
    /\ vout.value = None

\* C14: when the last_updated of the stored entry is missing, not a string or not a
\* parseable timestamp, get_cached returns absent and raises nothing, and the entry is
\* gone from PRODUCT_CACHE, so that no later call serves it.
MalformedIsMiss ==
    (GotCached /\ ~WellStamped(StoredEntry)) =>
        /\ vout.value = None
        /\ vin.slug \notin DOMAIN PRODUCT_CACHE

\* get_cached was called on an entry whose last_updated is a string that is no timestamp
MalformedIsMissSeen ==
    /\ GotCached
    /\ Get(StoredEntry, "last_updated", Null) = Str(<<"ontem">>)
    /\ vout.value = None

\* the second of two calls of normalize_slug returned
NormalizedTwice == vout # None /\ vin.fn = "normalize_slug" /\ vout.n = 2

\* C15: normalize_slug(normalize_slug(k)) = normalize_slug(k) for every k, alias keys,
\* alias targets and names with upper case, hyphens, spaces or surrounding white space
\* included: normalize_slug returns its argument when the argument is one of its results.
NormalizeIdempotent ==
    NormalizedTwice => vout.value = vout.of

\* normalize_slug was called on " \tfrango_partes\n" and again on the frango_congelado
\* it returned
NormalizeIdempotentSeen ==
    /\ NormalizedTwice
    /\ vin.slug = <<" ", "\t">> \o frango_partes \o <<"\n">>
    /\ vout.of = frango_congelado

\* the step ends a forced refresh of k whose research failed
FailedRefresh(k) ==
    /\ result'.force
    /\ Configured
    /\ normalize_slug(k) \in DOMAIN CLAUDE_RESEARCH_TASKS'
    /\ CLAUDE_RESEARCH_TASKS'[normalize_slug(k)].status \in FailureStatuses

\* PRODUCT_CACHE holds, under the normalized key of k, an entry whose age exceeds the TTL
ExpiredEntry(k) ==
    /\ normalize_slug(k) \in DOMAIN PRODUCT_CACHE
    /\ WellStamped(PRODUCT_CACHE[normalize_slug(k)])
    /\ AgeOf(PRODUCT_CACHE[normalize_slug(k)]) > CacheTtl

\* C13: an entry whose age exceeds the TTL is a miss for the lookup and stays in the
\* cache as the best available fallback: a forced refresh whose research failed serves it.
ExpiredStaysAvailable ==
    [][\A k \in ProductSlugs :
        (result' # None /\ result'.key = k /\ ExpiredEntry(k)) =>
            /\ ~result'.force => ~CacheSourced(result')
            /\ normalize_slug(k) \in DOMAIN PRODUCT_CACHE'
            /\ FailedRefresh(k) =>
                   result'.data = PRODUCT_CACHE[normalize_slug(k)]]_vars

\* C13, amended: an entry whose age exceeds the TTL is a miss for the lookup, whose
\* get_cached removes it from the cache, and it is never served: a non-forced lookup and
\* a forced refresh whose research failed return the reference record or the
\* placeholder, stamped at the instant of the call.
ExpiredIsDropped ==
    [][\A k \in ProductSlugs :
        (result' # None /\ result'.key = k /\ ExpiredEntry(k)) =>
            /\ result'.raised = "none"
            /\ ~result'.force =>
                   /\ ReferenceSourced(result') \/ Placeholder(result')
                   /\ \/ normalize_slug(k) \notin DOMAIN PRODUCT_CACHE'
                      \/ PRODUCT_CACHE'[normalize_slug(k)] = result'.data
            /\ FailedRefresh(k) =>
                   ReferenceSourced(result') \/ Placeholder(result')
            /\ result'.data["last_updated"] = Iso(now)]_vars

\* a forced refresh of pitaya failed while PRODUCT_CACHE held, and still holds, the
\* researched record stored a day and a second before: the placeholder came back
ExpiredIsDroppedSeen ==
    /\ result # None /\ result.force /\ result.key = pitaya
    /\ ResearchFailed /\ Placeholder(result)
    /\ ExpiredEntry(pitaya)
    /\ Researched(PRODUCT_CACHE[pitaya])

StatusValues == {ZOI_APPROVED, APPROVED, REQUIRES_ATTENTION, BLOCKED, RESEARCHING}

\* C17: a record produced by a successful extraction never carries an approval status
\* outside the enumerated set: no researched record returned or cached has one.
StatusEnumerated ==
    /\ (result # None /\ result.raised = "none" /\ Researched(result.data)) =>
           \E v \in StatusValues : Get(result.data, "status", Null) = Str(v)
    /\ \A slug \in DOMAIN PRODUCT_CACHE :
           Researched(PRODUCT_CACHE[slug]) =>
               \E v \in StatusValues : Get(PRODUCT_CACHE[slug], "status", Null) = Str(v)

\* the step ends run i with the task status parse_error
EndsInParseError(i) ==
    /\ runs' = RemoveAt(runs, i)
    /\ CLAUDE_RESEARCH_TASKS'[runs[i].slug].status = "parse_error"

\* C18: when neither the text of the tool loop nor the text of the fallback call holds a
\* parseable record, the research returns None and raises nothing, the task status
\* becomes parse_error, nothing is written to the cache, and the lookup falls back to
\* reference or placeholder data.
NoRecordNothingCached ==
    [][\A i \in DOMAIN runs :
        /\ \A resp \in Responses :
               (/\ runs[i].phase = "fallback" /\ resp.exc = "none"
                /\ ~Truthy(_parse_compliance_json(resp.text))) =>
                   /\ ResearchStep(runs[i], resp, now).done
                   /\ ResearchStep(runs[i], resp, now).status = "parse_error"
                   /\ ResearchStep(runs[i], resp, now).value = None
        /\ EndsInParseError(i) =>
               /\ PRODUCT_CACHE' = PRODUCT_CACHE
               /\ runs[i].origin = "forced" =>
                      /\ result'.raised = "none"
                      /\ ReferenceSourced(result') \/ Placeholder(result')]_vars

\* C18, amended: in that case the research returns None and raises nothing, the task
\* status becomes parse_error and no researched record is written to the cache; a
\* background run leaves the cache as it is, and a forced refresh falls back to the
\* reference record, which it caches, or to the placeholder, which it does not.
NoRecordFallsBack ==
    [][\A i \in DOMAIN runs :
        /\ \A resp \in Responses :
               (/\ runs[i].phase = "fallback" /\ resp.exc = "none"
                /\ ~Truthy(_parse_compliance_json(resp.text))) =>
                   /\ ResearchStep(runs[i], resp, now).done
                   /\ ResearchStep(runs[i], resp, now).status = "parse_error"
                   /\ ResearchStep(runs[i], resp, now).value = None
        /\ EndsInParseError(i) =>
               /\ runs[i].origin = "background" => PRODUCT_CACHE' = PRODUCT_CACHE
               /\ runs[i].origin = "forced" =>
                      /\ result'.raised = "none"
                      /\ IF runs[i].slug \in DOMAIN REFERENCE_DATA
                         THEN /\ ReferenceSourced(result')
                              /\ PRODUCT_CACHE' = Put(PRODUCT_CACHE, runs[i].slug, result'.data)
                         ELSE /\ Placeholder(result')
                              /\ PRODUCT_CACHE' = PRODUCT_CACHE]_vars

\* the background research of pitaya made its two provider calls and ended in
\* parse_error, and PRODUCT_CACHE has no entry for pitaya
NoRecordFallsBackSeen ==
    /\ runs = << >> /\ calls = 2 /\ result = None
    /\ pitaya \in DOMAIN CLAUDE_RESEARCH_TASKS
    /\ CLAUDE_RESEARCH_TASKS[pitaya].status = "parse_error"
    /\ pitaya \notin DOMAIN PRODUCT_CACHE

\* the item holds a fenced block, and the record written inside the block of an item
HasFencedBlock(item) == "text" \in DOMAIN item /\ \E i \in DOMAIN item.text : item.text[i] = FENCE
RecordOf(item) == item.text[CHOOSE i \in DOMAIN item.text : item.text[i].k = "obj"].v

\* the items of vin.blocks that hold a fenced block, the first and the most recent
FencedItems == {i \in DOMAIN vin.blocks : HasFencedBlock(vin.blocks[i])}
FirstItem == vin.blocks[CHOOSE i \in FencedItems : \A j \in FencedItems : i <= j]
LatestItem == vin.blocks[CHOOSE i \in FencedItems : \A j \in FencedItems : j <= i]

\* _parse_compliance_json returned for a list of items of which one holds a fenced block
ParsedItems ==
    vout # None /\ vin.fn = "_parse_compliance_json" /\ FencedItems # {}

\* C19: for a payload whose container holds a list of items, extraction prefers the most
\* recent item: the record returned is the one written inside the fenced block of that
\* item's text.
LatestItemParsed ==
    ParsedItems => vout.value = RecordOf(LatestItem)

\* C19, amended: extraction joins the text of all items in their order and returns the
\* record written inside the first fenced block of the joined text, that of the
\* earliest item that holds one.
FirstItemParsed ==
    ParsedItems => vout.value = RecordOf(FirstItem)

\* two items hold fenced blocks with different records, and the record of the earlier
\* item came back
FirstItemParsedSeen ==
    /\ ParsedItems
    /\ RecordOf(FirstItem) = PayloadUnlisted
    /\ RecordOf(LatestItem) = PayloadOtherBanned
    /\ vout.value = PayloadUnlisted

\* the step ends run i with the task status completed
Completes(i) ==
    /\ i \in DOMAIN runs
    /\ runs' = RemoveAt(runs, i)
    /\ CLAUDE_RESEARCH_TASKS'[runs[i].slug].status = "completed"

\* C20: of two researches of one key in flight, each one that succeeds writes its
\* record: whatever run started first and whatever entry the key holds, the entry
\* held after the step that ends a run is the record of that run, stamped at that step.
LastWriterWins ==
    [][\A i \in 1..2 :
          Completes(i) =>
              \E resp \in Responses :
                  /\ ResearchStep(runs[i], resp, now).done
                  /\ Truthy(ResearchStep(runs[i], resp, now).value)
                  /\ PRODUCT_CACHE'[runs[i].slug] =
                         Stamped(ResearchStep(runs[i], resp, now).value, now)]_vars

\* both runs ended; the forced refresh, whose record is the one returned, ended last and
\* a day after the start, and the key holds its record
LastWriterWinsSeen ==
    /\ runs = << >>
    /\ now = CacheTtl
    /\ result # None
    /\ result.line = 1592
    /\ Researched(PRODUCT_CACHE[pitaya])
    /\ PRODUCT_CACHE[pitaya] = result.data

\* C21: the reference knowledge base is read-only: every entry of REFERENCE_DATA, its
\* max_residue_limits and the limit, status, regulation and note of each substance
\* included, equals its value at process start.
ReferenceReadOnly ==
    REFERENCE_DATA = REFERENCE_DATA_AT_START

\* the statuses a task record ends in
TerminalStatuses == {"completed"} \cup FailureStatuses

\* no other run in flight has the key of run i
Alone(i) == \A j \in DOMAIN runs : j # i => runs[j].slug # runs[i].slug

\* the status and value a run ends a provider response with are consistent
EndsWell(run, resp, step) ==
    /\ (step.status = "timeout") = (resp.exc = "APITimeoutError")
    /\ (step.status = "api_error") = (resp.exc = "APIError")
    /\ step.done = (step.status \in TerminalStatuses)
    /\ step.done = (step.status # "running")
    /\ (step.status = "completed") = Truthy(step.value)
    /\ step.status = "parse_error" =>
           /\ resp.exc = "none"
           /\ ~Truthy(_parse_compliance_json(TextAfter(run, resp)))

\* C22: a run that recorded a task leaves it running until it returns and returns with
\* exactly one terminal status: completed with a record, parse_error when no record is
\* parsed, timeout on a provider timeout and on nothing else, api_error or error
\* otherwise; it never returns with the status running.
TaskEndsOnce ==
    [][/\ (Len(runs') = Len(runs) + 1 /\ SubSeq(runs', 1, Len(runs)) = runs) =>
              CLAUDE_RESEARCH_TASKS'[runs'[Len(runs')].slug].status = "running"
       /\ \A i \in DOMAIN runs :
              /\ \A resp \in Responses :
                     Answers(runs[i], resp) =>
                         LET step == ResearchStep(runs[i], resp, now)
                         IN EndsWell(runs[i], resp, step)
              /\ (/\ Alone(i)
                  /\ CLAUDE_RESEARCH_TASKS[runs[i].slug].status = "running"
                  /\ runs' # RemoveAt(runs, i)) =>
                     CLAUDE_RESEARCH_TASKS'[runs[i].slug].status = "running"
              /\ (Alone(i) /\ runs' = RemoveAt(runs, i)) =>
                     /\ CLAUDE_RESEARCH_TASKS'[runs[i].slug].status \in TerminalStatuses
                     /\ \E resp \in Responses :
                            LET step == ResearchStep(runs[i], resp, now)
                            IN /\ Answers(runs[i], resp)
                               /\ step.done
                               /\ CLAUDE_RESEARCH_TASKS'[runs[i].slug].status = step.status]_vars

\* a run ended on a provider timeout and its task reads timeout
TaskEndsOnceSeen ==
    /\ runs = << >>
    /\ pitaya \in DOMAIN CLAUDE_RESEARCH_TASKS
    /\ CLAUDE_RESEARCH_TASKS[pitaya].status = "timeout"

\* the loop goes on after the response: tool_use with a tool_use block, before the
\* last turn
GoesOn(run, resp) ==
    /\ run.phase = "loop"
    /\ resp.exc = "none"
    /\ resp.stop_reason = "tool_use"
    /\ resp.tool_use
    /\ run.turn + 1 < MAX_TURNS

\* what the run does with one response: it makes another call of the loop exactly on
\* tool_use with a tool_use block, it keeps the text of all rounds in their order, and
\* it makes the fallback call exactly when the loop stopped and the text of all rounds
\* yields no record
StepsAsSpecified(run, resp, step) ==
    /\ (~step.done /\ step.run.phase = "loop") = GoesOn(run, resp)
    /\ GoesOn(run, resp) => step.run.turn = run.turn + 1
    /\ (~step.done /\ run.phase = "loop") => step.run.text = run.text \o resp.text
    /\ (~step.done /\ step.run.phase = "fallback") =
           (/\ run.phase = "loop"
            /\ resp.exc = "none"
            /\ ~GoesOn(run, resp)
            /\ ~Truthy(_parse_compliance_json(run.text \o resp.text)))
    /\ run.phase = "fallback" => step.done

\* C23: a research run makes at most MAX_TURNS calls of the tool loop and at most
\* one fallback call: the loop goes on only on tool_use with a tool_use block, the
\* text of all rounds is concatenated in order, and the fallback call is made exactly
\* when that text yields no record.
LoopBounded ==
    \A i \in DOMAIN runs :
        /\ runs[i].phase \in {"loop", "fallback"}
        /\ runs[i].phase = "loop" => runs[i].turn < MAX_TURNS
        /\ \A resp \in LoopResponses :
               Answers(runs[i], resp) =>
                   LET step == ResearchStep(runs[i], resp, now)
                   IN StepsAsSpecified(runs[i], resp, step)

\* the run made MAX_TURNS calls of the loop, gathered a record followed by prose, and
\* is at its fallback call
LoopBoundedSeen ==
    /\ Len(runs) = 1
    /\ runs[1].phase = "fallback"
    /\ calls = MAX_TURNS + 1
    /\ runs[1].text = <<OBJ(PayloadUnsafe), PROSE>>

\* C24: a task record is changed only by the run that created it: while a run is in
\* flight the task of its key reads running, whatever another run of the same key did.
TaskOwnedByRun ==
    \A i \in DOMAIN runs : CLAUDE_RESEARCH_TASKS[runs[i].slug].status = "running"

\* C25: apply_regulatory_truth is total: whatever the status, the risk_score, the
\* max_residue_limits and the substance entries of the record, it returns a record and
\* raises no error.
ValidatorTotal ==
    vout # None => vout.ok

\* apply_regulatory_truth returned for a record whose max_residue_limits is a mapping
ValidatedLimits ==
    /\ vout # None
    /\ vout.ok
    /\ "max_residue_limits" \in DOMAIN vin
    /\ vin["max_residue_limits"].t = "dict"

\* the entries handed in and handed back, and the fields the authority dictates
LimitsIn == vin["max_residue_limits"].v
LimitsOut == vout.val["max_residue_limits"].v
AuthorityFields == {"limit", "status", "regulation", "note"}
AuthorityOf(substance_key) == EU_BANNED_SUBSTANCES[EU_BANNED_KEYS[FirstBannedMatch(substance_key)]]

\* the entry of a substance that matches an authority key needed a correction
NeededCorrection(e) == e.t # "dict" \/ Get(e.v, "status", Null) # Str(BANIDO)

\* C26: every entry that matches an authority key has its limit, status, regulation
\* and note replaced by the authority's and keeps its other fields; entries that match
\* none are unchanged; regulatory_correction_applied is set exactly when a matched
\* entry was not a mapping or had a status other than BANIDO.
AuthorityOverwrites ==
    ValidatedLimits =>
        /\ DOMAIN LimitsOut = DOMAIN LimitsIn
        /\ \A k \in DOMAIN LimitsIn :
               IF FirstBannedMatch(k) = 0
               THEN LimitsOut[k] = LimitsIn[k]
               ELSE /\ LimitsOut[k].t = "dict"
                    /\ \A f \in AuthorityFields : LimitsOut[k].v[f] = AuthorityOf(k)[f]
                    /\ LimitsIn[k].t = "dict" =>
                           /\ DOMAIN LimitsOut[k].v = DOMAIN LimitsIn[k].v \cup AuthorityFields
                           /\ \A f \in DOMAIN LimitsIn[k].v \ AuthorityFields :
                                  LimitsOut[k].v[f] = LimitsIn[k].v[f]
                    /\ LimitsIn[k].t # "dict" => DOMAIN LimitsOut[k].v = AuthorityFields
        /\ ("regulatory_correction_applied" \in DOMAIN vout.val) =
               (\E k \in DOMAIN LimitsIn : FirstBannedMatch(k) # 0 /\ NeededCorrection(LimitsIn[k]))
        /\ "regulatory_correction_applied" \in DOMAIN vout.val =>
               vout.val["regulatory_correction_applied"] = Bool(TRUE)

\* an entry of imidacloprid marked CONFORME came back BANIDO with its source field, next
\* to an unmatched entry that is not a mapping, and the correction is flagged
AuthorityOverwritesSeen ==
    /\ ValidatedLimits
    /\ imidacloprid \in DOMAIN LimitsIn
    /\ LimitsIn[imidacloprid].v["status"] = Str(CONFORME)
    /\ LimitsOut[imidacloprid].v["status"] = Str(BANIDO)
    /\ LimitsOut[imidacloprid].v["source"] = Str(<<"EFSA">>)
    /\ LimitsOut[glyphosate] = Str(<<"0.1 mg/kg">>)
    /\ vout.val["regulatory_correction_applied"] = Bool(TRUE)

\* apply_regulatory_truth returned, and whether an entry of the record handed in
\* matches an authority key
Returns == vout # None /\ vout.ok
SomeMatch ==
    /\ "max_residue_limits" \in DOMAIN vin
    /\ vin["max_residue_limits"].t = "dict"
    /\ \E k \in DOMAIN vin["max_residue_limits"].v : FirstBannedMatch(k) # 0

\* the field of the record handed back is the field of the record handed in, or is
\* missing as it was
Untouched(f) ==
    IF f \in DOMAIN vin THEN f \in DOMAIN vout.val /\ vout.val[f] = vin[f]
    ELSE f \notin DOMAIN vout.val

\* C27: when an entry matches an authority key the risk_score handed back is the
\* smaller of the risk_score handed in and 79; when none matches, status and
\* risk_score are unchanged; the risk_score is never raised.
RiskCapped ==
    Returns =>
        /\ (SomeMatch /\ "risk_score" \in DOMAIN vin) =>
               /\ vout.val["risk_score"].t = "num"
               /\ vout.val["risk_score"].v <= 79
               /\ vout.val["risk_score"].v =
                      IF vin["risk_score"].v < 79 THEN vin["risk_score"].v ELSE 79
        /\ (SomeMatch /\ "risk_score" \notin DOMAIN vin) => Untouched("risk_score")
        /\ ~SomeMatch => Untouched("status") /\ Untouched("risk_score")
        /\ ("risk_score" \in DOMAIN vout.val /\ vout.val["risk_score"].t = "num") =>
               /\ "risk_score" \in DOMAIN vin
               /\ vout.val["risk_score"].v <= vin["risk_score"].v

\* a record with a matching entry and the score 90 came back with 79
RiskCappedSeen ==
    /\ Returns
    /\ SomeMatch
    /\ "risk_score" \in DOMAIN vin
    /\ vin["risk_score"] = Num(90)
    /\ vout.val["risk_score"] = Num(79)

\* the entries handed back and those of them with the status BANIDO
EntriesOut == Cardinality(DOMAIN vout.val["max_residue_limits"].v)
BanidoOut ==
    Cardinality({k \in DOMAIN vout.val["max_residue_limits"].v :
                    IsBanidoEntry(vout.val["max_residue_limits"].v[k])})

\* C28: once an entry matched, the record carries a conformity percentage equal to the
\* integer part of 100 * (total - bannedCount) / total, between 0 and 100, total being
\* the number of entries (never zero) and bannedCount that of the entries with status
\* BANIDO.
ConformityExact ==
    (Returns /\ SomeMatch) =>
        /\ EntriesOut > 0
        /\ "lmr_conformity_pct" \in DOMAIN vout.val
        /\ vout.val["lmr_conformity_pct"].v \in 0..100
        /\ vout.val["lmr_conformity_pct"] =
               Num((100 * (EntriesOut - BanidoOut)) \div EntriesOut)

\* _parse_compliance_json returned for the free text vin.text
ParsedText == vout # None /\ vin.fn = "_parse_compliance_json(text)"

\* the text without the white space around it is one JSON mapping: that mapping
IsRecord(text) == Len(StripText(text)) = 1 /\ StripText(text)[1].k = "obj"
TheRecord(text) == StripText(text)[1].v

\* the fences of vin.text that open a block, and the text inside the block that the
\* fence at position o opens (after the tag json, if there is one)
Fences == {i \in DOMAIN vin.text : vin.text[i] = FENCE}
Opening == {i \in Fences : Cardinality({j \in Fences : j <= i}) % 2 = 1 /\ \E j \in Fences : j > i}
IsTagged(o) == vin.text[o + 1] = TAG
Inside(o) ==
    SubSeq(vin.text, IF IsTagged(o) THEN o + 2 ELSE o + 1,
           (CHOOSE c \in Fences : c > o /\ \A j \in Fences : j > o => c <= j) - 1)

\* the blocks tagged json that hold a record, and the blocks that hold a record
TaggedRecords == {o \in Opening : IsTagged(o) /\ IsRecord(Inside(o))}
BlockRecords == {o \in Opening : IsRecord(Inside(o))}
Earliest(S) == CHOOSE o \in S : \A j \in S : o <= j

\* the whole text is a record with the field ncm_code
WholeRecord == IsRecord(vin.text) /\ "ncm_code" \in DOMAIN TheRecord(vin.text)

\* the brace region of line 309: the text from its first brace on is one record that
\* has the field ncm_code and ends the text
RegionRecord ==
    /\ StripText(vin.text) # << >>
    /\ StripText(vin.text)[Len(StripText(vin.text))].k = "obj"
    /\ "ncm_code" \in DOMAIN StripText(vin.text)[Len(StripText(vin.text))].v
    /\ \A i \in 1..(Len(StripText(vin.text)) - 1) : StripText(vin.text)[i].k # "obj"

\* the brace regions of the text that are a record with the field ncm_code
CodedRecords ==
    {i \in DOMAIN vin.text : vin.text[i].k = "obj" /\ "ncm_code" \in DOMAIN vin.text[i].v}

\* C29: the strategies are tried in order and the first that succeeds wins: the whole
\* text, then a fenced block tagged json, then any fenced block, then a brace region
\* with ncm_code, each candidate in turn.
TaggedBlockFirst ==
    ParsedText =>
        IF WholeRecord THEN vout.value = TheRecord(vin.text)
        ELSE IF TaggedRecords # {} THEN vout.value = TheRecord(Inside(Earliest(TaggedRecords)))
        ELSE IF BlockRecords # {} THEN vout.value = TheRecord(Inside(Earliest(BlockRecords)))
        ELSE IF CodedRecords # {} THEN vout.value = vin.text[Earliest(CodedRecords)].v
        ELSE vout.value = None

\* C29, amended: the strategies are tried in order and the first that succeeds wins:
\* the whole text if it is a record with ncm_code, then the first fenced block of the
\* text, tagged json or not, if it holds a record, then the one brace region from the
\* first brace to the end of the text if it is a record with ncm_code; no other
\* candidate is tried, and without a success the result is None.
FirstBlockOnly ==
    ParsedText =>
        IF WholeRecord THEN vout.value = TheRecord(vin.text)
        ELSE IF Opening # {} /\ IsRecord(Inside(Earliest(Opening)))
        THEN vout.value = TheRecord(Inside(Earliest(Opening)))
        ELSE IF RegionRecord
        THEN vout.value = StripText(vin.text)[Len(StripText(vin.text))].v
        ELSE vout.value = None

\* the text opens with an untagged block that holds a record without ncm_code and goes
\* on with a block tagged json that holds another: the record of the first came back
FirstBlockOnlySeen ==
    /\ ParsedText
    /\ vin.text = <<FENCE, WS, OBJ(PayloadNoCode), FENCE, PROSE, FENCE, TAG,
                    OBJ(PayloadOtherBanned), FENCE>>
    /\ vout.value = PayloadNoCode

\* C30: every record that a successful research run returns and caches holds every
\* field of the schema, present in the payload or filled with a default, whichever
\* strategy accepted the payload.
SchemaComplete ==
    /\ \A slug \in DOMAIN PRODUCT_CACHE :
           Researched(PRODUCT_CACHE[slug]) => SchemaFields \subseteq DOMAIN PRODUCT_CACHE[slug]
    /\ (result # None /\ result.raised = "none" /\ Researched(result.data)) =>
           SchemaFields \subseteq DOMAIN result.data

ValidatorIdempotent ==
    (vout.applied >= 1 /\ vout.data.ok) =>
        apply_regulatory_truth(vout.data.val) = vout.data

\* a record with a banned substance entered as CONFORME, an approved status and a
\* risk_score of 90 was corrected by the first call and validated again
ValidatorIdempotentSeen ==
    /\ vout.applied = 2
    /\ vout.data.ok
    /\ Get(vin, "max_residue_limits", Null) = PayloadUnsafe["max_residue_limits"]
    /\ Get(vin, "status", Null) = Str(Zoi_Approved)
    /\ Get(vin, "risk_score", Null) = Num(90)
    /\ vout.data.val["status"] = Str(REQUIRES_ATTENTION)
    /\ vout.data.val["risk_score"] = Num(79)
    /\ vout.data.val["regulatory_correction_applied"] = Bool(TRUE)

\* the keys whose cache entry or task record a step changes
CacheKeys == DOMAIN PRODUCT_CACHE \cup DOMAIN PRODUCT_CACHE'
TaskKeys == DOMAIN CLAUDE_RESEARCH_TASKS \cup DOMAIN CLAUDE_RESEARCH_TASKS'
ChangedKeys ==
    {k \in CacheKeys :
        IF k \in DOMAIN PRODUCT_CACHE /\ k \in DOMAIN PRODUCT_CACHE'
        THEN PRODUCT_CACHE'[k] # PRODUCT_CACHE[k] ELSE TRUE}
    \cup {k \in TaskKeys :
        IF k \in DOMAIN CLAUDE_RESEARCH_TASKS /\ k \in DOMAIN CLAUDE_RESEARCH_TASKS'
        THEN CLAUDE_RESEARCH_TASKS'[k] # CLAUDE_RESEARCH_TASKS[k] ELSE TRUE}

\* C32: operations on one key leave the other keys alone: the end of a run changes
\* the cache entry and task record of no key but the run's, a lookup or forced
\* refresh of none but the normalized key requested, a status poll (where an expired
\* entry is dropped) of at most one key, and the passing of time of none.
KeysIndependent ==
    [][/\ Cardinality(ChangedKeys) <= 1
       /\ \A i \in DOMAIN runs : runs' = RemoveAt(runs, i) => ChangedKeys \subseteq {runs[i].slug}
       /\ result' # None => ChangedKeys \subseteq {normalize_slug(result'.key)}
       /\ now' # now => ChangedKeys = {}]_vars

\* the run for pitaya cached its record while the entry of acai, written by a lookup,
\* and the run for acai were there, and the entry of acai is as the lookup left it
KeysIndependentSeen ==
    /\ Len(runs) = 1
    /\ runs[1].slug = acai
    /\ pitaya \in DOMAIN PRODUCT_CACHE
    /\ acai \in DOMAIN PRODUCT_CACHE
    /\ Researched(PRODUCT_CACHE[pitaya])
    /\ ~Researched(PRODUCT_CACHE[acai])
    /\ CLAUDE_RESEARCH_TASKS[pitaya].status = "completed"
    /\ CLAUDE_RESEARCH_TASKS[acai].status = "running"

\* C33: a forced refresh has one deadline for the whole research attempt: while the
\* caller waits, no more than the configured research timeout has passed since the
\* start of get_product_data(k, True), however many calls the attempt makes.
OneDeadline ==
    \A i \in DOMAIN runs :
        now - fromisoformat(CLAUDE_RESEARCH_TASKS[runs[i].slug].started_at).val
            <= CLAUDE_RESEARCH_TIMEOUT

\* the keys without a reference record, the only ones a background task is scheduled for
UnknownKeys == {normalize_slug(k) : k \in ProductSlugs} \ DOMAIN REFERENCE_DATA

\* the cache holds a fresh researched record for slug
FreshResearched(slug) ==
    /\ CacheHit(PRODUCT_CACHE, slug, now)
    /\ Researched(PRODUCT_CACHE[slug])

\* C34: a background run that succeeds writes the researched record to the cache
\* under its key in the step in which it completes; while that entry is within the
\* TTL it stays a researched record, and every non-forced lookup of the key returns
\* the researched record from the cache, not the placeholder.
BackgroundCaches ==
    [][/\ \A i \in DOMAIN runs :
              (/\ runs[i].origin = "background"
               /\ runs' = RemoveAt(runs, i)
               /\ CLAUDE_RESEARCH_TASKS'[runs[i].slug].status = "completed") =>
                  /\ CacheHit(PRODUCT_CACHE', runs[i].slug, now)
                  /\ Researched(PRODUCT_CACHE'[runs[i].slug])
       /\ \A slug \in UnknownKeys :
              FreshResearched(slug) =>
                  /\ slug \in DOMAIN PRODUCT_CACHE'
                  /\ Researched(PRODUCT_CACHE'[slug])
       /\ \A k \in ProductSlugs :
              (normalize_slug(k) \in UnknownKeys /\ FreshResearched(normalize_slug(k))
                  /\ LookedUp(k)) =>
                  /\ result'.raised = "none"
                  /\ CacheSourced(result')
                  /\ Researched(result'.data)
                  /\ ~Placeholder(result')]_vars

\* the research for pitaya completed, later in the same TTL a non-forced lookup was
\* served the researched record from the cache
BackgroundCachesSeen ==
    /\ result # None
    /\ result.key = pitaya
    /\ ~result.force
    /\ result.raised = "none"
    /\ CacheSourced(result)
    /\ Researched(result.data)
    /\ CLAUDE_RESEARCH_TASKS[pitaya].status = "completed"
    /\ runs = << >>

\* run i is a forced refresh that ends in this step with a failure
RefreshFails(i) ==
    /\ runs[i].origin = "forced"
    /\ runs' = RemoveAt(runs, i)
    /\ CLAUDE_RESEARCH_TASKS'[runs[i].slug].status \in FailureStatuses

\* C35: a forced refresh that fails never makes the served data worse: a fresh
\* researched record in the cache is not overwritten by reference data, and the
\* caller is not given a placeholder or a reference record in its place.
RefreshKeepsResearched ==
    [][\A i \in DOMAIN runs :
          (RefreshFails(i) /\ FreshResearched(runs[i].slug)) =>
              /\ runs[i].slug \in DOMAIN PRODUCT_CACHE'
              /\ Researched(PRODUCT_CACHE'[runs[i].slug])
              /\ Researched(result'.data)]_vars

\* the step returned the fallback for the key slug without raising: the reference
\* record, written to the cache in place of the entry, or the placeholder, with the
\* cache left as it was
FellBack(slug) ==
    /\ result'.raised = "none"
    /\ IF slug \in DOMAIN REFERENCE_DATA
       THEN /\ ReferenceSourced(result')
            /\ PRODUCT_CACHE'[slug] = result'.data
            /\ \A j \in DOMAIN PRODUCT_CACHE \ {slug} :
                   j \in DOMAIN PRODUCT_CACHE' /\ PRODUCT_CACHE'[j] = PRODUCT_CACHE[j]
       ELSE /\ Placeholder(result')
            /\ PRODUCT_CACHE' = PRODUCT_CACHE

\* C35, amended: a forced refresh that fails, or that runs with no backend
\* configured, does not raise and falls back without reading the cache, also when the
\* cache holds a fresh researched record: for a key of the reference knowledge base
\* the reference record is returned and written to the cache in place of the entry,
\* for any other key the placeholder is returned and the cache is left as it was.
RefreshFallsBack ==
    [][/\ \A i \in DOMAIN runs : RefreshFails(i) => FellBack(runs[i].slug)
       /\ \A k \in {pitaya, Acai_Polpa} :
              (~Configured /\ result' # None /\ result'.key = k /\ result'.force) =>
                  FellBack(normalize_slug(k))]_vars

\* one refresh of pitaya cached its researched record, then the other failed: the
\* caller was given the placeholder while the researched record is fresh in the cache
RefreshFallsBackSeen ==
    /\ runs = << >>
    /\ result # None
    /\ result.force
    /\ result.key = pitaya
    /\ Placeholder(result)
    /\ Configured
    /\ CLAUDE_RESEARCH_TASKS[pitaya].status \in FailureStatuses
    /\ FreshResearched(pitaya)

\* C36: a background run that fails, for whatever reason, leaves the cache as it was,
\* the entry of its key included, and hands nothing to any caller: no result and no
\* exception come out of the background task.
BackgroundFailureSilent ==
    [][\A i \in DOMAIN runs :
          (/\ runs[i].origin = "background"
           /\ runs' = RemoveAt(runs, i)
           /\ CLAUDE_RESEARCH_TASKS'[runs[i].slug].status \in FailureStatuses) =>
              /\ PRODUCT_CACHE' = PRODUCT_CACHE
              /\ REFERENCE_DATA' = REFERENCE_DATA
              /\ scheduled' = scheduled
              /\ result' = None]_vars

\* one run for pitaya cached its record and then a background run for pitaya failed:
\* the record is still the fresh cache entry
BackgroundFailureSilentSeen ==
    /\ runs = << >>
    /\ now = 0
    /\ result = None
    /\ CLAUDE_RESEARCH_TASKS[pitaya].status \in FailureStatuses
    /\ FreshResearched(pitaya)

\* the last_updated of the cache entry of slug before and after the step
StampOf(slug) == Get(PRODUCT_CACHE[slug], "last_updated", Null)
StampAfter(slug) == Get(PRODUCT_CACHE'[slug], "last_updated", Null)

\* the step is a set_cached: a research that returned a record, or a lookup that
\* fell back on the reference record
WritesCache ==
    \/ Len(runs') < Len(runs)
    \/ result' # None /\ result'.line \in {1592, 1610}

\* C37: reading a cache entry never extends its lifetime: a cache hit and a status
\* poll leave the last_updated of the entry as it was, only set_cached changes it
\* (to the time of the write), and one TTL after that time the entry is served no more.
ReadKeepsStamp ==
    [][\A slug \in DOMAIN PRODUCT_CACHE :
          /\ (result' # None /\ CacheSourced(result') /\ normalize_slug(result'.key) = slug) =>
                 /\ CacheHit(PRODUCT_CACHE, slug, now)
                 /\ slug \in DOMAIN PRODUCT_CACHE'
                 /\ StampAfter(slug) = StampOf(slug)
          /\ (slug \in DOMAIN PRODUCT_CACHE' /\ StampAfter(slug) # StampOf(slug)) =>
                 /\ WritesCache
                 /\ StampAfter(slug) = isoformat(now)
          /\ (/\ StampOf(slug).t = "iso"
              /\ now - StampOf(slug).v >= CacheTtl
              /\ result' # None
              /\ normalize_slug(result'.key) = slug) => ~CacheSourced(result')]_vars

\* half a lifetime after the entry of acai was written a lookup is served from the
\* cache, and the entry still carries the time of the write
ReadKeepsStampSeen ==
    /\ now = CacheTtl \div 2
    /\ result # None
    /\ result.key = Acai_Polpa
    /\ CacheSourced(result)
    /\ acai \in DOMAIN PRODUCT_CACHE
    /\ StampOf(acai) = isoformat(0)

\* C38: a placeholder is never written to the cache: every PRODUCT_CACHE entry has
\* the data_source reference_knowledge or claude_ai_realtime, whatever data_source the
\* payload of the provider brought, and a last_updated that set_cached wrote.
CacheSourcesKnown ==
    \A slug \in DOMAIN PRODUCT_CACHE :
        /\ Get(PRODUCT_CACHE[slug], "data_source", Null) \in
               {Str(<<"reference_knowledge">>), Str(<<"claude_ai_realtime">>)}
        /\ Get(PRODUCT_CACHE[slug], "last_updated", Null).t = "iso"
        /\ Get(PRODUCT_CACHE[slug], "last_updated", Null).v <= now

\* the record of a payload that called itself a placeholder is in the cache as a
\* researched record
CacheSourcesKnownSeen ==
    /\ pitaya \in DOMAIN PRODUCT_CACHE
    /\ PRODUCT_CACHE[pitaya]["ncm_code"] = PayloadForged["ncm_code"]
    /\ Researched(PRODUCT_CACHE[pitaya])
    /\ result # None
    /\ result.key = pitaya
    /\ result.force

\* pairs of spellings of one product, and the keys of the two products
SameProduct == {<<Acai_Polpa, acai>>, <<acai, Acai_Polpa>>, <<PITAYA, pitaya>>, <<pitaya, PITAYA>>}
CanonicalKeys == {acai, pitaya}

\* the last request returned a record that is in the cache: a cache hit, a researched
\* record or the reference record
ReturnedCached ==
    /\ result # None
    /\ result.raised = "none"
    /\ result.line \in {1584, 1592, 1610}

\* C40: spellings with the same normalized key share one cache entry and one task
\* record: the cache and the task map have entries under normalized keys only, and
\* once a request under one spelling has cached a record, a non-forced lookup under
\* the other spelling is a cache hit that returns that record, in either direction.
SpellingsShareEntry ==
    [][/\ DOMAIN PRODUCT_CACHE' \subseteq CanonicalKeys
       /\ DOMAIN CLAUDE_RESEARCH_TASKS' \subseteq CanonicalKeys
       /\ \A pair \in SameProduct :
              (ReturnedCached /\ result.key = pair[1] /\ LookedUp(pair[2])) =>
                  /\ result'.raised = "none"
                  /\ CacheSourced(result')
                  /\ result'.data = Put(result.data, "data_source_note", CACHE_NOTE)
                  /\ PRODUCT_CACHE'[normalize_slug(pair[1])] = result'.data]_vars

\* a refresh requested as PITAYA returned a researched record, which is the cache
\* entry of pitaya, and its task record is that of pitaya
SpellingsShareEntrySeen ==
    /\ result # None
    /\ result.key = PITAYA
    /\ result.force
    /\ result.line = 1592
    /\ runs = << >>
    /\ DOMAIN PRODUCT_CACHE = {pitaya}
    /\ PRODUCT_CACHE[pitaya] = result.data
    /\ DOMAIN CLAUDE_RESEARCH_TASKS = {pitaya}
    /\ CLAUDE_RESEARCH_TASKS[pitaya].status = "completed"

====
